---- MODULE Spec2Model ----
(***************************************************************************)
(* lambda-toolkit: the HTTP handler wrapper (withHttpHandler), its error   *)
(* mapper (errorHandler), the response headers (getHeaders), the schema    *)
(* validator, the DynamoDB key stripper and the environment getters.       *)
(*                                                                         *)
(* JavaScript strings that are concatenated, serialized or parsed are      *)
(* sequences of one-character strings; strings that are only compared     *)
(* (header names and values) are TLA+ strings.                             *)
(***************************************************************************)
EXTENDS Integers, Sequences, FiniteSets, TLC

VARIABLES pc, calls, outcome, logs, thrown, responses, propagated,
          event, handlerArgs,
          hdrOverrides, hdrResult,
          ehError, ehResult,
          vsSchema, vsData, vsResult,
          skItem, skKeysToStrip, skExtraKeysToStrip, skResult,
          cfgEnv, cfgCall, cfgResult,
          cvCall, cvResult,
          dnsCall, dnsResult,
          invocations, headerObjects

\* the state of one invocation of a withHttpHandler handler
pipelineVars ==
  <<pc, calls, outcome, logs, thrown, responses, propagated, event, handlerArgs>>
\* a call of getHeaders
headersVars == <<hdrOverrides, hdrResult>>
\* a call of errorHandler
errorHandlerVars == <<ehError, ehResult>>
\* a call of validateSchema
schemaVars == <<vsSchema, vsData, vsResult>>
\* a call of stripInternalKeys
stripVars == <<skItem, skKeysToStrip, skExtraKeysToStrip, skResult>>
\* process.env and a call of one of the config-manager getters
configVars == <<cfgEnv, cfgCall, cfgResult>>
\* a call of one of the config-manager converters
converterVars == <<cvCall, cvResult>>
\* a call of sanitiseDnsString or of one of the domain generators
dnsVars == <<dnsCall, dnsResult>>
\* the invocations of one handler in flight, and the headers objects of the
\* responses they returned
concurrentVars == <<invocations, headerObjects>>

vars ==
  <<pipelineVars, headersVars, errorHandlerVars, schemaVars, stripVars, configVars,
    converterVars, dnsVars, concurrentVars>>

(***************************************************************************)
(* Bounds of the model.                                                    *)
(***************************************************************************)
MaxStrLen == 2
MaxArrLen == 2
MaxIssues == 2
MaxKeys == 2
MaxEnvLen == 3
MaxNames == 2
MaxInvocations == 2

(***************************************************************************)
(* String literals of the source.                                          *)
(***************************************************************************)
ValidationErrorName == <<"V", "a", "l", "i", "d", "a", "t", "i", "o", "n", "E", "r", "r", "o", "r">>
ResourceNotFoundName == <<"R", "e", "s", "o", "u", "r", "c", "e", "N", "o", "t", "F", "o", "u", "n", "d">>
ConflictErrorName == <<"C", "o", "n", "f", "l", "i", "c", "t", "E", "r", "r", "o", "r">>
TooManyRequestsErrorName == <<"T", "o", "o", "M", "a", "n", "y", "R", "e", "q", "u", "e", "s", "t", "s", "E", "r", "r", "o", "r">>
UnauthorisedErrorName == <<"U", "n", "a", "u", "t", "h", "o", "r", "i", "s", "e", "d", "E", "r", "r", "o", "r">>
ForbiddenErrorName == <<"F", "o", "r", "b", "i", "d", "d", "e", "n", "E", "r", "r", "o", "r">>
FallbackMessage == <<"A", "n", " ", "e", "r", "r", "o", "r", " ", "h", "a", "s", " ", "o", "c", "c", "u", "r", "r", "e", "d">>
UnknownErrorText == <<"U", "n", "k", "n", "o", "w", "n", " ", "e", "r", "r", "o", "r">>
PrivateErrorPrefix == <<"p", "r", "i", "v", "a", "t", "e", " ", "e", "r", "r", "o", "r", ":", " ">>

(***************************************************************************)
(* JavaScript values.                                                      *)
(***************************************************************************)
JUndefined == [t |-> "undefined"]
JNull == [t |-> "null"]
JBool(b) == [t |-> "boolean", v |-> b]
JNum(n) == [t |-> "number", v |-> n]
JStr(s) == [t |-> "string", v |-> s]
JArr(xs) == [t |-> "array", v |-> xs]
\* an object is the sequence of its own enumerable <<key, value>> members
JObj(ms) == [t |-> "object", v |-> ms]
\* an object that refers to itself
JCircular == [t |-> "circular"]

(***************************************************************************)
(* JSON.stringify, on the values above.                                    *)
(***************************************************************************)
DigitChars == <<"0", "1", "2", "3", "4", "5", "6", "7", "8", "9">>

RECURSIVE NatText(_)
NatText(n) ==
  IF n < 10 THEN <<DigitChars[n + 1]>>
  ELSE NatText(n \div 10) \o <<DigitChars[(n % 10) + 1]>>

NumberText(n) == IF n < 0 THEN <<"-">> \o NatText(-n) ELSE NatText(n)

\* EscapeChar without the escape of the backslash itself
EscapeCharKeepsBackslash(c) ==
  IF c = "\"" THEN <<"\\", "\"">>
  ELSE IF c = "\n" THEN <<"\\", "n">>
  ELSE <<c>>

EscapeChar(c) ==
  IF c = "\"" THEN <<"\\", "\"">>
  ELSE IF c = "\\" THEN <<"\\", "\\">>
  ELSE IF c = "\n" THEN <<"\\", "n">>
  ELSE <<c>>

RECURSIVE EscapeChars(_)
EscapeChars(s) ==
  IF s = <<>> THEN <<>> ELSE EscapeChar(Head(s)) \o EscapeChars(Tail(s))

Quote(s) == <<"\"">> \o EscapeChars(s) \o <<"\"">>

RECURSIVE SerializeJSON(_), SerializeElems(_), SerializeMembers(_)
SerializeJSON(val) ==
  CASE val.t = "null" -> <<"n", "u", "l", "l">>
    [] val.t = "boolean" ->
         IF val.v THEN <<"t", "r", "u", "e">> ELSE <<"f", "a", "l", "s", "e">>
    [] val.t = "number" -> NumberText(val.v)
    [] val.t = "string" -> Quote(val.v)
    [] val.t = "array" -> <<"[">> \o SerializeElems(val.v) \o <<"]">>
    [] val.t = "object" -> <<"{">> \o SerializeMembers(val.v) \o <<"}">>

SerializeElems(xs) ==
  IF xs = <<>> THEN <<>>
  ELSE IF Len(xs) = 1 THEN SerializeJSON(xs[1])
  ELSE SerializeJSON(xs[1]) \o <<",">> \o SerializeElems(Tail(xs))

SerializeMembers(ms) ==
  IF ms = <<>> THEN <<>>
  ELSE IF Len(ms) = 1 THEN Quote(ms[1][1]) \o <<":">> \o SerializeJSON(ms[1][2])
  ELSE Quote(ms[1][1]) \o <<":">> \o SerializeJSON(ms[1][2]) \o <<",">>
         \o SerializeMembers(Tail(ms))

\* JSON.stringify(value): a string, undefined for undefined, or a TypeError
\* (threw = TRUE) for a circular structure.
JSONstringify(val) ==
  IF val.t = "circular" THEN [threw |-> TRUE, v |-> JUndefined]
  ELSE IF val.t = "undefined" THEN [threw |-> FALSE, v |-> JUndefined]
  ELSE [threw |-> FALSE, v |-> JStr(SerializeJSON(val))]

(***************************************************************************)
(* JSON.parse, on texts without insignificant whitespace.                  *)
(***************************************************************************)
ParseFail == [ok |-> FALSE, v |-> JNull, rest |-> <<>>]
ParseOk(val, rest) == [ok |-> TRUE, v |-> val, rest |-> rest]

StartsWith(s, p) == Len(s) >= Len(p) /\ SubSeq(s, 1, Len(p)) = p
Drop(s, n) == SubSeq(s, n + 1, Len(s))

DigitValue(c) == CHOOSE d \in 0..9 : DigitChars[d + 1] = c
IsDigit(c) == \E d \in 0..9 : DigitChars[d + 1] = c

RECURSIVE ParseChars(_, _)
ParseChars(s, acc) ==
  IF s = <<>> THEN ParseFail
  ELSE IF Head(s) = "\"" THEN ParseOk(JStr(acc), Tail(s))
  ELSE IF Head(s) = "\n" THEN ParseFail
  ELSE IF Head(s) = "\\" THEN
    IF Len(s) < 2 THEN ParseFail
    ELSE IF s[2] \in {"\"", "\\", "/"} THEN ParseChars(Drop(s, 2), Append(acc, s[2]))
    ELSE IF s[2] = "n" THEN ParseChars(Drop(s, 2), Append(acc, "\n"))
    ELSE ParseFail
  ELSE ParseChars(Tail(s), Append(acc, Head(s)))

RECURSIVE ParseDigits(_, _)
ParseDigits(s, acc) ==
  IF s # <<>> /\ IsDigit(Head(s))
  THEN ParseDigits(Tail(s), 10 * acc + DigitValue(Head(s)))
  ELSE [n |-> acc, rest |-> s]

\* s starts at the first digit
ParseNat(s) ==
  IF s = <<>> \/ ~IsDigit(Head(s)) THEN ParseFail
  ELSE IF Head(s) = "0" THEN ParseOk(JNum(0), Tail(s))
  ELSE LET r == ParseDigits(s, 0) IN ParseOk(JNum(r.n), r.rest)

ParseNumber(s) ==
  IF Head(s) = "-"
  THEN LET r == ParseNat(Tail(s))
       IN IF r.ok THEN ParseOk(JNum(-r.v.v), r.rest) ELSE ParseFail
  ELSE ParseNat(s)

RECURSIVE ParseValue(_), ParseElems(_, _, _), ParseMembers(_, _, _)
ParseValue(s) ==
  IF s = <<>> THEN ParseFail
  ELSE IF StartsWith(s, <<"n", "u", "l", "l">>) THEN ParseOk(JNull, Drop(s, 4))
  ELSE IF StartsWith(s, <<"t", "r", "u", "e">>) THEN ParseOk(JBool(TRUE), Drop(s, 4))
  ELSE IF StartsWith(s, <<"f", "a", "l", "s", "e">>) THEN ParseOk(JBool(FALSE), Drop(s, 5))
  ELSE IF Head(s) = "\"" THEN ParseChars(Tail(s), <<>>)
  ELSE IF Head(s) = "[" THEN ParseElems(Tail(s), <<>>, TRUE)
  ELSE IF Head(s) = "{" THEN ParseMembers(Tail(s), <<>>, TRUE)
  ELSE IF Head(s) = "-" \/ IsDigit(Head(s)) THEN ParseNumber(s)
  ELSE ParseFail

ParseElems(s, acc, first) ==
  IF s = <<>> THEN ParseFail
  ELSE IF first /\ Head(s) = "]" THEN ParseOk(JArr(acc), Tail(s))
  ELSE LET r == ParseValue(s)
       IN IF ~r.ok \/ r.rest = <<>> THEN ParseFail
          ELSE IF Head(r.rest) = "," THEN ParseElems(Tail(r.rest), Append(acc, r.v), FALSE)
          ELSE IF Head(r.rest) = "]" THEN ParseOk(JArr(Append(acc, r.v)), Tail(r.rest))
          ELSE ParseFail

ParseMembers(s, acc, first) ==
  IF s = <<>> THEN ParseFail
  ELSE IF first /\ Head(s) = "}" THEN ParseOk(JObj(acc), Tail(s))
  ELSE IF Head(s) # "\"" THEN ParseFail
  ELSE LET k == ParseChars(Tail(s), <<>>)
       IN IF ~k.ok \/ k.rest = <<>> \/ Head(k.rest) # ":" THEN ParseFail
          ELSE LET r == ParseValue(Tail(k.rest))
                   m == <<k.v.v, r.v>>
               IN IF ~r.ok \/ r.rest = <<>> THEN ParseFail
                  ELSE IF Head(r.rest) = "," THEN ParseMembers(Tail(r.rest), Append(acc, m), FALSE)
                  ELSE IF Head(r.rest) = "}" THEN ParseOk(JObj(Append(acc, m)), Tail(r.rest))
                  ELSE ParseFail

\* JSON.parse(text): the value, or a SyntaxError (threw = TRUE)
JSONparse(text) ==
  LET r == ParseValue(text)
  IN IF r.ok /\ r.rest = <<>> THEN [threw |-> FALSE, v |-> r.v]
     ELSE [threw |-> TRUE, v |-> JUndefined]

(***************************************************************************)
(* getHeaders.  Header values are strings or booleans; a headers object is *)
(* the function from its keys to its values.                               *)
(***************************************************************************)
DefaultHeaders ==
  ("Content-Type" :> JStr("application/json")) @@
  ("Content-Security-Policy" :> JStr("default-src 'self'")) @@
  ("Strict-Transport-Security" :> JStr("max-age=31536000; includeSubDomains; preload")) @@
  ("X-Content-Type-Options" :> JStr("nosniff")) @@
  ("X-Frame-Options" :> JStr("DENY")) @@
  ("X-XSS-Protection" :> JStr("1; mode=block")) @@
  ("Referrer-Policy" :> JStr("no-referrer")) @@
  ("Permissions-Policy" :> JStr("geolocation=(), microphone=()")) @@
  ("Access-Control-Allow-Methods" :> JStr("GET,POST,OPTIONS")) @@
  ("Access-Control-Allow-Headers" :> JStr("Content-Type, Authorization")) @@
  ("Access-Control-Allow-Credentials" :> JBool(TRUE))

\* getHeaders() and getHeaders({}): nothing to spread
NoOverrides == [k \in {} |-> JUndefined]

\* getHeaders with the spreads in the other order: { ...overrides, ...defaults }
getHeadersDefaultsWin(overrides) ==
  [k \in (DOMAIN DefaultHeaders) \cup (DOMAIN overrides) |->
     IF k \in DOMAIN DefaultHeaders THEN DefaultHeaders[k] ELSE overrides[k]]

\* { ...defaults, ...overrides }: a later spread wins on a key collision
getHeaders(overrides) ==
  [k \in (DOMAIN DefaultHeaders) \cup (DOMAIN overrides) |->
     IF k \in DOMAIN overrides THEN overrides[k] ELSE DefaultHeaders[k]]

(***************************************************************************)
(* Thrown values and the error classes.                                    *)
(***************************************************************************)
ErrorClassName == <<"E", "r", "r", "o", "r">>
TypeErrorName == <<"T", "y", "p", "e", "E", "r", "r", "o", "r">>
ResourceNotFoundErrorName == <<"R", "e", "s", "o", "u", "r", "c", "e", "N", "o", "t", "F", "o", "u", "n", "d", "E", "r", "r", "o", "r">>
SymbolTypeErrorMessage == <<"C", "a", "n", "n", "o", "t", " ", "c", "o", "n", "v", "e", "r", "t", " ", "a", " ", "S", "y", "m", "b", "o", "l", " ", "v", "a", "l", "u", "e", " ", "t", "o", " ", "a", " ", "s", "t", "r", "i", "n", "g">>
EmailIsRequired == <<"E", "m", "a", "i", "l", " ", "i", "s", " ", "r", "e", "q", "u", "i", "r", "e", "d">>
DbDown == <<"D", "B", " ", "d", "o", "w", "n">>
ErrorKey == <<"e", "r", "r", "o", "r">>
StatusCodeKey == <<"s", "t", "a", "t", "u", "s", "C", "o", "d", "e">>
MessageKey == <<"m", "e", "s", "s", "a", "g", "e">>
OkText == <<"o", "k">>

\* an instance of Error (or of a subclass) with the given name and message
JError(name, message) == [t |-> "Error", name |-> name, message |-> message]
\* a plain object { name, message } that is not an Error
JPlainObject(name, message) == [t |-> "plainObject", name |-> name, message |-> message]
JSymbol == [t |-> "symbol"]

ValidationError(message) == JError(ValidationErrorName, message)

\* error instanceof Error
InstanceOfError(error) == error.t = "Error"

\* `${error}`: the string conversion of a thrown value; a Symbol cannot be
\* converted and the template literal throws a TypeError instead
TemplateThrows(error) == error.t = "symbol"
TemplateString(error) ==
  CASE error.t = "Error" ->
         IF error.name = <<>> THEN error.message
         ELSE IF error.message = <<>> THEN error.name
         ELSE error.name \o <<":", " ">> \o error.message
    [] error.t = "string" -> error.v
    [] error.t = "plainObject" ->
         <<"[", "o", "b", "j", "e", "c", "t", " ", "O", "b", "j", "e", "c", "t", "]">>

(***************************************************************************)
(* http-errors: createError.<Name>(message).                               *)
(***************************************************************************)
createError(status, message) ==
  [t |-> "HttpError", statusCode |-> status, message |-> message,
   expose |-> status < 500]

(***************************************************************************)
(* logger.error(message) and logger.error(message, context).               *)
(***************************************************************************)
LogMessage(message) == [message |-> message, context |-> <<>>]
LogWithContext(message, errorName, statusCode) ==
  [message |-> message,
   context |-> <<[errorName |-> errorName, statusCode |-> statusCode]>>]

(***************************************************************************)
(* errorHandler: the log entries it emits and the error it throws.         *)
(***************************************************************************)
\* one case of the switch: set errorMessage and statusCode, log, throw
ThrowHttp(raw, errorMessage, statusCode) ==
  [logs |-> <<raw, LogWithContext(errorMessage, errorMessage, statusCode)>>,
   thrown |-> createError(statusCode, errorMessage)]

\* errorHandler with the 404 case on the class name 'ResourceNotFoundError'
\* instead of the name its instances carry
errorHandlerClassNameCase(error) ==
  IF TemplateThrows(error)
  THEN [logs |-> <<>>, thrown |-> JError(TypeErrorName, SymbolTypeErrorMessage)]
  ELSE
    LET raw == LogMessage(PrivateErrorPrefix \o TemplateString(error))
    IN IF InstanceOfError(error)
       THEN CASE error.name = ValidationErrorName -> ThrowHttp(raw, error.message, 400)
              [] error.name = ResourceNotFoundErrorName -> ThrowHttp(raw, error.message, 404)
              [] error.name = ConflictErrorName -> ThrowHttp(raw, error.message, 409)
              [] error.name = TooManyRequestsErrorName -> ThrowHttp(raw, error.message, 429)
              [] error.name = UnauthorisedErrorName -> ThrowHttp(raw, error.message, 401)
              [] error.name = ForbiddenErrorName -> ThrowHttp(raw, error.message, 403)
              [] OTHER -> ThrowHttp(raw, FallbackMessage, 500)
       ELSE ThrowHttp(raw, FallbackMessage, 500)

\* errorHandler that classifies an instance by the class that built it
errorHandlerByClass(error) ==
  IF TemplateThrows(error)
  THEN [logs |-> <<>>, thrown |-> JError(TypeErrorName, SymbolTypeErrorMessage)]
  ELSE
    LET raw == LogMessage(PrivateErrorPrefix \o TemplateString(error))
        Classify(name) ==
          CASE name = ValidationErrorName -> ThrowHttp(raw, error.message, 400)
            [] name = ResourceNotFoundName -> ThrowHttp(raw, error.message, 404)
            [] name = ConflictErrorName -> ThrowHttp(raw, error.message, 409)
            [] name = TooManyRequestsErrorName -> ThrowHttp(raw, error.message, 429)
            [] name = UnauthorisedErrorName -> ThrowHttp(raw, error.message, 401)
            [] name = ForbiddenErrorName -> ThrowHttp(raw, error.message, 403)
            [] OTHER -> ThrowHttp(raw, FallbackMessage, 500)
    IN IF InstanceOfError(error)
       THEN Classify(IF "class" \in DOMAIN error THEN error.class ELSE error.name)
       ELSE ThrowHttp(raw, FallbackMessage, 500)

errorHandler(error) ==
  IF TemplateThrows(error)
  THEN [logs |-> <<>>, thrown |-> JError(TypeErrorName, SymbolTypeErrorMessage)]
  ELSE
    LET raw == LogMessage(PrivateErrorPrefix \o TemplateString(error))
    IN IF InstanceOfError(error)
       THEN CASE error.name = ValidationErrorName -> ThrowHttp(raw, error.message, 400)
              [] error.name = ResourceNotFoundName -> ThrowHttp(raw, error.message, 404)
              [] error.name = ConflictErrorName -> ThrowHttp(raw, error.message, 409)
              [] error.name = TooManyRequestsErrorName -> ThrowHttp(raw, error.message, 429)
              [] error.name = UnauthorisedErrorName -> ThrowHttp(raw, error.message, 401)
              [] error.name = ForbiddenErrorName -> ThrowHttp(raw, error.message, 403)
              [] OTHER -> ThrowHttp(raw, FallbackMessage, 500)
       ELSE ThrowHttp(raw, FallbackMessage, 500)

(***************************************************************************)
(* @middy/http-error-handler with { fallbackMessage }: the onError hook    *)
(* that turns the error baseHandler rejected with into the response.       *)
(***************************************************************************)
\* jsonSafeParse(message) is still a string: only a text that starts an
\* object, an array or a string literal is parsed at all
JsonSafeParseIsString(message) ==
  IF message = <<>> \/ Head(message) \notin {"{", "[", "\""} THEN TRUE
  ELSE LET r == JSONparse(message) IN r.threw \/ r.v.t = "string"

\* the error after the fallback: an error without a statusCode, or one that
\* is not exposed, is replaced by { 500, fallbackMessage }
\* NormalizeError that keeps the message of the error it replaces
NormalizeErrorKeepsMessage(error) ==
  IF error.t # "HttpError" \/ ~error.expose
  THEN [statusCode |-> 500, message |-> error.message, expose |-> TRUE]
  ELSE [statusCode |-> error.statusCode, message |-> error.message, expose |-> TRUE]

NormalizeError(error) ==
  IF error.t # "HttpError" \/ ~error.expose
  THEN [statusCode |-> 500, message |-> FallbackMessage, expose |-> TRUE]
  ELSE [statusCode |-> error.statusCode, message |-> error.message, expose |-> TRUE]

\* httpErrorHandler without a fallbackMessage: an error that is not exposed
\* gets no response
httpErrorHandlerNoFallback(error) ==
  IF error.t = "HttpError" /\ error.expose
  THEN <<[statusCode |-> error.statusCode,
          headers |-> ("Content-Type" :>
                         IF JsonSafeParseIsString(error.message)
                         THEN JStr("text/plain") ELSE JStr("application/json")),
          body |-> JStr(error.message)]>>
  ELSE <<>>

\* <<response>>, or <<>> when the hook leaves the response undefined
httpErrorHandler(error) ==
  LET e == NormalizeError(error)
  IN IF e.expose
     THEN <<[statusCode |-> e.statusCode,
             headers |-> ("Content-Type" :>
                            IF JsonSafeParseIsString(e.message)
                            THEN JStr("text/plain") ELSE JStr("application/json")),
             body |-> JStr(e.message)]>>
     ELSE <<>>

(***************************************************************************)
(* withHttpHandler: baseHandler, from the point where handlerFn settles.   *)
(***************************************************************************)
\* result.statusCode || 200
StatusCodeOrDefaultFalsy(result) ==
  IF "statusCode" \in DOMAIN result /\ result.statusCode # 0 THEN result.statusCode ELSE 200

\* result.statusCode ?? 200
StatusCodeOrDefault(result) ==
  IF "statusCode" \in DOMAIN result THEN result.statusCode ELSE 200

\* the catch block without its own log
CatchBlockNoLog(error) ==
  LET eh == errorHandler(error)
  IN [returned |-> FALSE,
      logs |-> eh.logs,
      thrown |-> <<eh.thrown>>,
      response |-> <<>>]

\* the catch block: one log of the message, then errorHandler, which throws
CatchBlock(error) ==
  LET eh == errorHandler(error)
  IN [returned |-> FALSE,
      logs |-> <<LogMessage(IF InstanceOfError(error) THEN error.message
                            ELSE UnknownErrorText)>> \o eh.logs,
      thrown |-> <<eh.thrown>>,
      response |-> <<>>]

\* the try block after handlerFn resolved with result
TryBlock(result) ==
  LET body == JSONstringify(result.body)
  IN IF body.threw
     THEN CatchBlock(JError(TypeErrorName,
            <<"C", "o", "n", "v", "e", "r", "t", "i", "n", "g", " ", "c", "i", "r", "c", "u", "l", "a", "r", " ", "s", "t", "r", "u", "c", "t", "u", "r", "e",
             " ", "t", "o", " ", "J", "S", "O", "N">>))
     ELSE [returned |-> TRUE,
           logs |-> <<>>,
           thrown |-> <<>>,
           response |-> <<[statusCode |-> StatusCodeOrDefault(result),
                           headers |-> getHeaders(NoOverrides),
                           body |-> body.v]>>]

(***************************************************************************)
(* The values the business function is run with.                           *)
(***************************************************************************)
\* the sequences of at most n of the elements
RECURSIVE SeqsUpTo(_, _)
SeqsUpTo(elements, n) ==
  IF n = 0 THEN {<<>>}
  ELSE LET shorter == SeqsUpTo(elements, n - 1)
       IN shorter \cup {Append(s, x) : s \in {y \in shorter : Len(y) = n - 1}, x \in elements}

\* the bodies a business function returns: JSON scalars, flat and nested
\* arrays and objects, undefined and an object that refers to itself
Bodies ==
  LET Scalars ==
        {JNull, JBool(TRUE), JBool(FALSE), JNum(0), JNum(7), JNum(-12), JNum(201)}
          \cup {JStr(s) : s \in SeqsUpTo({"o", "\"", "\\", "\n"}, MaxStrLen)}
      Elements == {JNull, JBool(TRUE), JNum(1), JStr(OkText), JStr(<<"\"">>)}
      MemberLists ==
        {<<>>}
          \cup {<<<<MessageKey, x>>>> : x \in Elements}
          \cup {<<<<ErrorKey, x>>, <<StatusCodeKey, y>>>> : x \in Elements, y \in {JNum(1), JNull}}
      Flat == {JArr(xs) : xs \in SeqsUpTo(Elements, MaxArrLen)} \cup {JObj(ms) : ms \in MemberLists}
      Nested == {JArr(<<x>>) : x \in Flat} \cup {JObj(<<<<MessageKey, x>>>>) : x \in Flat}
  IN Scalars \cup Flat \cup Nested \cup {JUndefined, JCircular}

\* { body } and { statusCode, body }
Results == [body : Bodies] \cup [statusCode : {0, 200, 201, 404}, body : Bodies]

Messages == {<<>>, EmailIsRequired, DbDown, <<"{", "}">>}

ThrownValues ==
  {JError(n, m) :
     n \in {ValidationErrorName, UnauthorisedErrorName, ForbiddenErrorName,
            ResourceNotFoundName, ConflictErrorName, TooManyRequestsErrorName,
            ErrorClassName, TypeErrorName, ResourceNotFoundErrorName, <<>>},
     m \in Messages}
    \cup {JStr(m) : m \in Messages}
    \cup {JPlainObject(n, m) : n \in {ValidationErrorName, ResourceNotFoundName}, m \in Messages}
    \cup {JSymbol}
    \* instances whose name was assigned after construction: class is the
    \* name the constructor had set
    \cup [t : {"Error"},
          class : {ErrorClassName, TypeErrorName, ValidationErrorName, ConflictErrorName},
          name : {ValidationErrorName, ConflictErrorName, ForbiddenErrorName,
                  <<"C", "u", "s", "t", "o", "m", "E", "r", "r", "o", "r">>},
          message : {DbDown}]

(***************************************************************************)
(* Zod.  schema.safeParse(data) gives { success: true, data } or           *)
(* { success: false, error }, error being a ZodError with its issues, an   *)
(* issue being { path, message }.                                          *)
(***************************************************************************)
SafeParseOk(data) == [success |-> TRUE, data |-> data]
SafeParseError(issues) == [success |-> FALSE, error |-> [issues |-> issues]]

(***************************************************************************)
(* validateSchema.  A schema is the function from the data it is given to  *)
(* the result of safeParse.                                                *)
(***************************************************************************)
ValidationFailedPrefix == <<"V", "a", "l", "i", "d", "a", "t", "i", "o", "n", " ", "f", "a", "i", "l", "e", "d", ":", " ">>
RootText == <<"r", "o", "o", "t">>
FirstNameKey == <<"f", "i", "r", "s", "t", "N", "a", "m", "e">>
ItemsKey == <<"i", "t", "e", "m", "s">>
ExpectedStringMessage == <<"I", "n", "v", "a", "l", "i", "d", " ", "i", "n", "p", "u", "t", ":", " ", "e", "x", "p", "e", "c", "t", "e", "d", " ", "s", "t", "r", "i", "n", "g", ",", " ", "r", "e", "c", "e", "i", "v", "e", "d", " ", "n", "u", "l", "l">>
OnlyLettersMessage == <<"F", "i", "r", "s", "t", " ", "n", "a", "m", "e", " ", "m", "u", "s", "t", " ", "c", "o", "n", "t", "a", "i", "n", " ", "o", "n", "l", "y", " ", "l", "e", "t", "t", "e", "r", "s">>

\* String(segment): a path segment is a key or an array index
SegmentText(segment) ==
  IF segment.t = "number" THEN NumberText(segment.v) ELSE segment.v

\* texts.join(separator)
RECURSIVE Join(_, _)
Join(texts, separator) ==
  IF texts = <<>> THEN <<>>
  ELSE IF Len(texts) = 1 THEN texts[1]
  ELSE texts[1] \o separator \o Join(Tail(texts), separator)

\* validateSchema that joins the path without the 'root' case
validateSchemaNoRoot(schema, data) ==
  LET result == schema[data]
  IN IF ~result.success
     THEN LET errorMessages ==
                [i \in 1..Len(result.error.issues) |->
                   Join([j \in 1..Len(result.error.issues[i].path) |->
                           SegmentText(result.error.issues[i].path[j])], <<".">>)
                     \o <<":", " ">> \o result.error.issues[i].message]
          IN [threw |-> TRUE,
              value |-> ValidationError(ValidationFailedPrefix \o Join(errorMessages, <<";", " ">>))]
     ELSE [threw |-> FALSE, value |-> result.data]

\* what validateSchema returns (threw = FALSE) or throws (threw = TRUE)
validateSchema(schema, data) ==
  LET result == schema[data]
  IN IF ~result.success
     THEN LET IssueText(issue) ==
                LET path == IF Len(issue.path) > 0
                            THEN Join([i \in 1..Len(issue.path) |-> SegmentText(issue.path[i])],
                                      <<".">>)
                            ELSE RootText
                IN path \o <<":", " ">> \o issue.message
              errorMessages ==
                [i \in 1..Len(result.error.issues) |-> IssueText(result.error.issues[i])]
              errorMessage == ValidationFailedPrefix \o Join(errorMessages, <<";", " ">>)
          IN [threw |-> TRUE, value |-> ValidationError(errorMessage)]
     ELSE [threw |-> FALSE, value |-> result.data]

\* the issues a schema reports: at the root, at a key, at an array index
Issues ==
  [path : {<<>>, <<JStr(FirstNameKey)>>, <<JStr(ItemsKey), JNum(0)>>,
           <<JStr(ItemsKey), JNum(12), JStr(FirstNameKey)>>},
   message : {ExpectedStringMessage, OnlyLettersMessage}]

\* the data validateSchema is run with: accepted and not accepted
GoodData == JObj(<<<<FirstNameKey, JStr(OkText)>>>>)
BadData == JObj(<<<<FirstNameKey, JNull>>>>)
SchemaData == {GoodData, BadData}

\* a schema accepts GoodData, as it is or transformed, and reports one to
\* MaxIssues issues on BadData
Schemas ==
  {[d \in SchemaData |-> IF d = GoodData THEN SafeParseOk(parsed) ELSE SafeParseError(issues)] :
     parsed \in {GoodData, JStr(OkText)},
     issues \in SeqsUpTo(Issues, MaxIssues) \ {<<>>}}

(***************************************************************************)
(* stripInternalKeys.  An item is its own properties: a function from the  *)
(* property keys to { value, enumerable }.  A returned object is a function*)
(* from its keys to the values; a value is a primitive or the reference to *)
(* a nested object.  An element of a key array is a string or, from an     *)
(* untyped caller, a number; v is the property key it converts to.         *)
(***************************************************************************)
DefaultKeysToStrip ==
  <<"pk", "sk", "PK", "SK", "TTL", "ttl", "gsi1pk", "gsi1sk", "gsi2pk", "gsi2sk", "gsi3pk", "gsi3sk">>

KeyString(key) == [t |-> "string", v |-> key]
KeyNumber(key) == [t |-> "number", v |-> key]
Reference(addr) == [t |-> "ref", addr |-> addr]

\* extraKeysToStrip.filter((k) => typeof k === 'string')
RECURSIVE FilterStrings(_)
FilterStrings(keys) ==
  IF keys = <<>> THEN <<>>
  ELSE IF Head(keys).t = "string" THEN <<Head(keys)>> \o FilterStrings(Tail(keys))
  ELSE FilterStrings(Tail(keys))

\* for (const key of allKeysToStrip) { if (key in copy) delete copy[key] }
RECURSIVE DeleteKeys(_, _)
DeleteKeys(copy, allKeysToStrip) ==
  IF allKeysToStrip = <<>> THEN copy
  ELSE LET key == Head(allKeysToStrip).v
           rest == IF key \in DOMAIN copy
                   THEN [k \in DOMAIN copy \ {key} |-> copy[k]]
                   ELSE copy
       IN DeleteKeys(rest, Tail(allKeysToStrip))

\* the defaults stripped in addition to the keys that are given
KeysToStripAndDefaults(keysToStrip) ==
  IF keysToStrip = <<>>
  THEN [i \in 1..Len(DefaultKeysToStrip) |-> KeyString(DefaultKeysToStrip[i])]
  ELSE keysToStrip[1] \o [i \in 1..Len(DefaultKeysToStrip) |-> KeyString(DefaultKeysToStrip[i])]

\* the parameter default: keysToStrip is <<>> when omitted or undefined,
\* <<keys>> when given
KeysToStripOrDefault(keysToStrip) ==
  IF keysToStrip = <<>>
  THEN [i \in 1..Len(DefaultKeysToStrip) |-> KeyString(DefaultKeysToStrip[i])]
  ELSE keysToStrip[1]

\* stripInternalKeys deleting from the item itself (const copy = item)
stripInternalKeysInPlace(item, keysToStrip, extraKeysToStrip) ==
  LET allKeysToStrip == KeysToStripOrDefault(keysToStrip) \o FilterStrings(extraKeysToStrip)
      copy == DeleteKeys(item, allKeysToStrip)
  IN [item |-> copy, keysToStrip |-> keysToStrip, extraKeysToStrip |-> extraKeysToStrip,
      result |-> [k \in DOMAIN copy |-> copy[k].value]]

\* the arguments after the call and the object returned; { ...item } has
\* the own enumerable properties of the item, by value
stripInternalKeys(item, keysToStrip, extraKeysToStrip) ==
  LET copy == [k \in {key \in DOMAIN item : item[key].enumerable} |-> item[k].value]
      allKeysToStrip == KeysToStripOrDefault(keysToStrip) \o FilterStrings(extraKeysToStrip)
  IN [item |-> item, keysToStrip |-> keysToStrip, extraKeysToStrip |-> extraKeysToStrip,
      result |-> DeleteKeys(copy, allKeysToStrip)]

\* the items stripInternalKeys is run with: every key present or not, the
\* property 'name' enumerable or not, 'customMeta' a nested object
ItemKeys == {"pk", "gsi3sk", "name", "customMeta", "42"}

Items ==
  LET ItemValue(key) ==
        CASE key = "customMeta" -> Reference(1)
          [] key = "42" -> JNum(42)
          [] OTHER -> JStr(OkText)
  IN {[k \in keys |-> [value |-> ItemValue(k), enumerable |-> k # "name" \/ enumerable]] :
        keys \in SUBSET ItemKeys, enumerable \in BOOLEAN}

KeysToStripArgs ==
  {<<>>} \cup {<<ks>> : ks \in SeqsUpTo({KeyString("pk"), KeyString("name"), KeyNumber("42")}, MaxKeys)}

ExtraKeysToStripArgs ==
  SeqsUpTo({KeyString("customMeta"), KeyString("gsi3sk"), KeyNumber("42")}, MaxKeys)

(***************************************************************************)
(* The config-manager getters.  process.env is a function from the         *)
(* variable names to <<>> (not set) or <<value>>, the value a string.  The *)
(* text of a ZodError, a rendering of its issues, is modelled by the       *)
(* issues' messages; an issue of a schema is the first check that fails.   *)
(***************************************************************************)
InvalidEnvironmentVariable == <<"I", "n", "v", "a", "l", "i", "d", " ", "e", "n", "v", "i", "r", "o", "n", "m", "e", "n", "t", " ", "v", "a", "r", "i", "a", "b", "l", "e", ":", " ">>
TrueText == <<"t", "r", "u", "e">>
FalseText == <<"f", "a", "l", "s", "e">>

StringMinLength == 1
StringMaxLength == 1000
BooleanMinLength == 4
BooleanMaxLength == 5
NumberMinLength == 1
NumberMaxLength == 10

\* z.string().min(min).max(max) on process.env[variableName]
ZString(input, min, max) ==
  IF input = <<>>
  THEN SafeParseError(<<[path |-> <<>>,
                         message |-> <<"I", "n", "v", "a", "l", "i", "d", " ", "i", "n", "p", "u", "t", ":", " ", "e", "x", "p", "e", "c", "t", "e", "d", " ", "s", "t", "r", "i", "n", "g", ",", " ", "r", "e", "c", "e", "i", "v", "e", "d", " ", "u", "n", "d", "e", "f", "i", "n", "e", "d">>]>>)
  ELSE IF Len(input[1]) < min
  THEN SafeParseError(<<[path |-> <<>>, message |-> <<"T", "o", "o", " ", "s", "m", "a", "l", "l">>]>>)
  ELSE IF Len(input[1]) > max
  THEN SafeParseError(<<[path |-> <<>>, message |-> <<"T", "o", "o", " ", "b", "i", "g">>]>>)
  ELSE SafeParseOk(input[1])

\* the string schema with the limits of the README: 2 to 100 characters
StringSchemaOfReadme(input) == ZString(input, 2, 100)

\* z.string().min(1).max(1000)
StringSchema(input) == ZString(input, StringMinLength, StringMaxLength)

\* new Error(`Invalid environment variable: ${variableName}: ${result.error}`)
InvalidVariableError(variableName, error) ==
  JError(ErrorClassName,
         InvalidEnvironmentVariable \o variableName \o <<":", " ">>
           \o Join([i \in 1..Len(error.issues) |-> error.issues[i].message], <<";", " ">>))

\* getString with a message that does not name the variable
getStringNoName(env, variableName) ==
  LET Outcome(result) ==
        IF ~result.success
        THEN [threw |-> TRUE,
              value |-> JError(ErrorClassName,
                               InvalidEnvironmentVariable \o result.error.issues[1].message)]
        ELSE [threw |-> FALSE, value |-> JStr(result.data)]
  IN Outcome(StringSchema(env[variableName]))

\* what getString returns (threw = FALSE) or throws (threw = TRUE), result
\* being schema.safeParse(process.env[variableName])
getString(env, variableName) ==
  LET Outcome(result) ==
        IF ~result.success
        THEN [threw |-> TRUE, value |-> InvalidVariableError(variableName, result.error)]
        ELSE [threw |-> FALSE, value |-> JStr(result.data)]
  IN Outcome(StringSchema(env[variableName]))

\* String.prototype.toLowerCase on one character, on ASCII
ToLowerCaseChar(c) ==
  LET upper == <<"A", "B", "C", "D", "E", "F", "G", "H", "I", "J", "K", "L", "M">> \o
               <<"N", "O", "P", "Q", "R", "S", "T", "U", "V", "W", "X", "Y", "Z">>
      lower == <<"a", "b", "c", "d", "e", "f", "g", "h", "i", "j", "k", "l", "m">> \o
               <<"n", "o", "p", "q", "r", "s", "t", "u", "v", "w", "x", "y", "z">>
  IN IF \E i \in 1..Len(upper) : upper[i] = c
     THEN lower[CHOOSE i \in 1..Len(upper) : upper[i] = c]
     ELSE c

ToLowerCase(val) == [i \in 1..Len(val) |-> ToLowerCaseChar(val[i])]

\* the boolean schema without .transform((val) => val.toLowerCase())
BooleanSchemaCaseSensitive(input) ==
  LET Refine(val) ==
        IF ~(val = TrueText \/ val = FalseText)
        THEN SafeParseError(<<[path |-> <<>>, message |-> <<"M", "u", "s", "t", " ", "b", "e", " ", "\"", "t", "r", "u", "e", "\"", " ", "o", "r", " ", "\"", "f", "a", "l", "s", "e", "\"">>]>>)
        ELSE SafeParseOk(val = TrueText)
      Transform(str) == IF ~str.success THEN str ELSE Refine(str.data)
  IN Transform(ZString(input, BooleanMinLength, BooleanMaxLength))

\* z.string().min(4).max(5).transform(toLowerCase).refine(...).transform(...)
BooleanSchema(input) ==
  LET Refine(val) ==
        IF ~(val = TrueText \/ val = FalseText)
        THEN SafeParseError(<<[path |-> <<>>, message |-> <<"M", "u", "s", "t", " ", "b", "e", " ", "\"", "t", "r", "u", "e", "\"", " ", "o", "r", " ", "\"", "f", "a", "l", "s", "e", "\"">>]>>)
        ELSE SafeParseOk(val = TrueText)
      Transform(str) == IF ~str.success THEN str ELSE Refine(ToLowerCase(str.data))
  IN Transform(ZString(input, BooleanMinLength, BooleanMaxLength))

getBoolean(env, variableName) ==
  LET Outcome(result) ==
        IF ~result.success
        THEN [threw |-> TRUE, value |-> InvalidVariableError(variableName, result.error)]
        ELSE [threw |-> FALSE, value |-> JBool(result.data)]
  IN Outcome(BooleanSchema(env[variableName]))

(***************************************************************************)
(* Number(val), the StringToNumber conversion.  A finite number is kept in *)
(* decimal: the sign, the significant digits (most significant first, no   *)
(* leading or trailing zero, none for zero) and the power of ten that      *)
(* multiplies them; it stands for the double nearest to that value.  A     *)
(* value beyond the largest double is Infinity, one below half the         *)
(* smallest is zero.                                                       *)
(***************************************************************************)
NaN == [t |-> "number", kind |-> "NaN"]
Infinity(neg) == [t |-> "number", kind |-> "Infinity", neg |-> neg]
Finite(neg, digits, exp) ==
  [t |-> "number", kind |-> "finite", neg |-> neg, digits |-> digits, exp |-> exp]

Repeat(c, n) == [i \in 1..n |-> c]

\* String.prototype.trim
Trim(val) ==
  LET WhiteSpaceChars == {" ", "\t", "\n", "\r"}
      RECURSIVE TrimStart(_)
      TrimStart(v) ==
        IF v # <<>> /\ Head(v) \in WhiteSpaceChars THEN TrimStart(Tail(v)) ELSE v
      RECURSIVE TrimEnd(_)
      TrimEnd(v) ==
        IF v # <<>> /\ v[Len(v)] \in WhiteSpaceChars
        THEN TrimEnd(SubSeq(v, 1, Len(v) - 1))
        ELSE v
  IN TrimEnd(TrimStart(val))

\* the double of the digits times ten to the exp
ToDouble(neg, digits, exp) ==
  LET \* 1.797693134e308 and 2.470328229e-324, to ten digits
      MaxValueDigits == <<1, 7, 9, 7, 6, 9, 3, 1, 3, 4>>
      MaxValueExponent == 308
      HalfMinValueDigits == <<2, 4, 7, 0, 3, 2, 8, 2, 2, 9>>
      HalfMinValueExponent == 0 - 324
      RECURSIVE StripLeadingZeros(_)
      StripLeadingZeros(ds) ==
        IF ds # <<>> /\ Head(ds) = 0 THEN StripLeadingZeros(Tail(ds)) ELSE ds
      \* a > b on digit sequences that stand for 0.a and 0.b
      RECURSIVE DigitsGreater(_, _)
      DigitsGreater(a, b) ==
        IF a = <<>> THEN FALSE
        ELSE IF b = <<>> THEN TRUE
        ELSE IF Head(a) # Head(b) THEN Head(a) > Head(b)
        ELSE DigitsGreater(Tail(a), Tail(b))
      significant == StripLeadingZeros(digits)
      reversed == [i \in 1..Len(significant) |-> significant[Len(significant) + 1 - i]]
      trailing == Len(significant) - Len(StripLeadingZeros(reversed))
      mantissa == SubSeq(significant, 1, Len(significant) - trailing)
      magnitude == exp + Len(significant) - 1
  IN IF mantissa = <<>> THEN Finite(neg, <<>>, 0)
     ELSE IF magnitude > MaxValueExponent
             \/ (magnitude = MaxValueExponent /\ DigitsGreater(mantissa, MaxValueDigits))
          THEN Infinity(neg)
     ELSE IF magnitude < HalfMinValueExponent
             \/ (magnitude = HalfMinValueExponent /\ ~DigitsGreater(mantissa, HalfMinValueDigits))
          THEN Finite(neg, <<>>, 0)
     ELSE Finite(neg, mantissa, exp + trailing)

\* Number(val) for a string val
Number(val) ==
  LET HexDigitChars == DigitChars \o <<"a", "b", "c", "d", "e", "f">>
      \* the number of digits the text starts with
      RECURSIVE CountDigits(_)
      CountDigits(s) ==
        IF s # <<>> /\ IsDigit(Head(s)) THEN 1 + CountDigits(Tail(s)) ELSE 0
      RECURSIVE DecimalValue(_)
      DecimalValue(s) ==
        IF s = <<>> THEN 0
        ELSE DecimalValue(SubSeq(s, 1, Len(s) - 1)) * 10 + DigitValue(s[Len(s)])
      IsRadixDigit(c, radix) == \E d \in 1..radix : HexDigitChars[d] = ToLowerCaseChar(c)
      RadixDigitValue(c) ==
        (CHOOSE d \in 1..Len(HexDigitChars) : HexDigitChars[d] = ToLowerCaseChar(c)) - 1
      \* digits * radix + carry on decimal digits, least significant first
      RECURSIVE MulAdd(_, _, _)
      MulAdd(digits, radix, carry) ==
        IF digits = <<>>
        THEN IF carry = 0 THEN <<>> ELSE <<carry % 10>> \o MulAdd(<<>>, radix, carry \div 10)
        ELSE LET x == Head(digits) * radix + carry
             IN <<x % 10>> \o MulAdd(Tail(digits), radix, x \div 10)
      \* the decimal digits, least significant first, of the text in the radix
      RECURSIVE RadixValue(_, _)
      RadixValue(s, radix) ==
        IF s = <<>> THEN <<>>
        ELSE MulAdd(RadixValue(SubSeq(s, 1, Len(s) - 1), radix), radix,
                    RadixDigitValue(s[Len(s)]))
      \* StrUnsignedDecimalLiteral: Infinity, or digits with an optional
      \* fraction and an optional exponent
      UnsignedDecimalLiteral(neg, s) ==
        LET n1 == CountDigits(s)
            afterInt == Drop(s, n1)
            hasDot == afterInt # <<>> /\ Head(afterInt) = "."
            afterDot == IF hasDot THEN Tail(afterInt) ELSE afterInt
            n2 == IF hasDot THEN CountDigits(afterDot) ELSE 0
            afterFrac == Drop(afterDot, n2)
            hasExp == afterFrac # <<>> /\ Head(afterFrac) \in {"e", "E"}
            afterE == IF hasExp THEN Tail(afterFrac) ELSE <<>>
            expSigned == afterE # <<>> /\ Head(afterE) \in {"+", "-"}
            expNeg == afterE # <<>> /\ Head(afterE) = "-"
            expText == IF expSigned THEN Tail(afterE) ELSE afterE
            n3 == CountDigits(expText)
            valid == /\ n1 + n2 > 0
                     /\ IF hasExp THEN n3 > 0 /\ n3 = Len(expText) ELSE afterFrac = <<>>
            expValue == IF ~hasExp THEN 0
                        ELSE IF expNeg THEN 0 - DecimalValue(expText)
                        ELSE DecimalValue(expText)
            digitText == SubSeq(s, 1, n1) \o SubSeq(afterDot, 1, n2)
        IN IF s = <<"I", "n", "f", "i", "n", "i", "t", "y">> THEN Infinity(neg)
           ELSE IF ~valid THEN NaN
           ELSE ToDouble(neg, [i \in 1..Len(digitText) |-> DigitValue(digitText[i])],
                         expValue - n2)
      \* 0x, 0o and 0b literals: no sign, at least one digit of the radix
      NonDecimalLiteral(s, radix) ==
        LET digitText == Drop(s, 2)
            lsb == RadixValue(digitText, radix)
        IN IF digitText # <<>> /\ \A i \in 1..Len(digitText) : IsRadixDigit(digitText[i], radix)
           THEN ToDouble(FALSE, [i \in 1..Len(lsb) |-> lsb[Len(lsb) + 1 - i]], 0)
           ELSE NaN
      text == Trim(val)
      marker == IF Len(text) >= 2 /\ text[1] = "0" THEN ToLowerCaseChar(text[2]) ELSE ""
  IN IF text = <<>> THEN Finite(FALSE, <<>>, 0)
     ELSE IF marker = "x" THEN NonDecimalLiteral(text, 16)
     ELSE IF marker = "o" THEN NonDecimalLiteral(text, 8)
     ELSE IF marker = "b" THEN NonDecimalLiteral(text, 2)
     ELSE IF Head(text) = "-" THEN UnsignedDecimalLiteral(TRUE, Tail(text))
     ELSE IF Head(text) = "+" THEN UnsignedDecimalLiteral(FALSE, Tail(text))
     ELSE UnsignedDecimalLiteral(FALSE, text)

\* the number schema without .refine((val) => val.trim().length > 0)
NumberSchemaNoTrimCheck(input) ==
  LET Refine(val) ==
        IF val = NaN
        THEN SafeParseError(<<[path |-> <<>>, message |-> <<"M", "u", "s", "t", " ", "b", "e", " ", "a", " ", "v", "a", "l", "i", "d", " ", "n", "u", "m", "b", "e", "r">>]>>)
        ELSE SafeParseOk(val)
      Transform(str) == IF ~str.success THEN str ELSE Refine(Number(str.data))
  IN Transform(ZString(input, NumberMinLength, NumberMaxLength))

\* z.string().min(1).max(10).refine(trimmed not empty).transform(Number)
\*  .refine(not NaN)
NumberSchema(input) ==
  LET Refine(val) ==
        IF val = NaN
        THEN SafeParseError(<<[path |-> <<>>, message |-> <<"M", "u", "s", "t", " ", "b", "e", " ", "a", " ", "v", "a", "l", "i", "d", " ", "n", "u", "m", "b", "e", "r">>]>>)
        ELSE SafeParseOk(val)
      Transform(str) ==
        IF ~str.success THEN str
        ELSE IF ~(Len(Trim(str.data)) > 0)
        THEN SafeParseError(<<[path |-> <<>>, message |-> <<"M", "u", "s", "t", " ", "n", "o", "t", " ", "b", "e", " ", "o", "n", "l", "y", " ", "w", "h", "i", "t", "e", "s", "p", "a", "c", "e">>]>>)
        ELSE Refine(Number(str.data))
  IN Transform(ZString(input, NumberMinLength, NumberMaxLength))

getNumber(env, variableName) ==
  LET Outcome(result) ==
        IF ~result.success
        THEN [threw |-> TRUE, value |-> InvalidVariableError(variableName, result.error)]
        ELSE [threw |-> FALSE, value |-> result.data]
  IN Outcome(NumberSchema(env[variableName]))

\* the callback of get with the string attempt first
getOneStringFirst(env, varName) ==
  LET Try(first, second, third) ==
        IF ~first.threw THEN first ELSE IF ~second.threw THEN second ELSE third
  IN Try(getString(env, varName), getBoolean(env, varName), getNumber(env, varName))

\* the callback of get: try getBoolean, then getNumber, then return getString
\* the callback of get without its last attempt, getString
getOneWithoutString(env, varName) ==
  LET Try(first, second) == IF ~first.threw THEN first ELSE second
  IN Try(getBoolean(env, varName), getNumber(env, varName))

getOne(env, varName) ==
  LET Try(first, second, third) ==
        IF ~first.threw THEN first ELSE IF ~second.threw THEN second ELSE third
  IN Try(getBoolean(env, varName), getNumber(env, varName), getString(env, varName))

\* variableNames.map(callback): the array of the results, or the first throw
\* a map that goes through every name and throws what the last invalid one threw
MapNamesLastInvalid(one, variableNames, acc) ==
  LET invalid == {i \in 1..Len(variableNames) : one[variableNames[i]].threw}
  IN IF invalid = {}
     THEN [threw |-> FALSE,
           value |-> acc \o [i \in 1..Len(variableNames) |-> one[variableNames[i]].value]]
     ELSE one[variableNames[CHOOSE i \in invalid : \A j \in invalid : j <= i]]

\* variableNames.map(callback): the callback runs on the names in order, and
\* what it throws ends the map
RECURSIVE MapNames(_, _, _)
MapNames(one, variableNames, acc) ==
  IF variableNames = <<>> THEN [threw |-> FALSE, value |-> acc]
  ELSE LET r == one[Head(variableNames)]
       IN IF r.threw THEN r
          ELSE MapNames(one, Tail(variableNames), Append(acc, r.value))

get(env, variableNames) ==
  LET Outcome(all) == IF all.threw THEN all ELSE [threw |-> FALSE, value |-> JArr(all.value)]
  IN Outcome(MapNames([n \in DOMAIN env |-> getOne(env, n)], variableNames, <<>>))

getStrings(env, variableNames) ==
  LET Outcome(all) == IF all.threw THEN all ELSE [threw |-> FALSE, value |-> JArr(all.value)]
  IN Outcome(MapNames([n \in DOMAIN env |-> getString(env, n)], variableNames, <<>>))

getBooleans(env, variableNames) ==
  LET Outcome(all) == IF all.threw THEN all ELSE [threw |-> FALSE, value |-> JArr(all.value)]
  IN Outcome(MapNames([n \in DOMAIN env |-> getBoolean(env, n)], variableNames, <<>>))

getNumbers(env, variableNames) ==
  LET Outcome(all) == IF all.threw THEN all ELSE [threw |-> FALSE, value |-> JArr(all.value)]
  IN Outcome(MapNames([n \in DOMAIN env |-> getNumber(env, n)], variableNames, <<>>))

(***************************************************************************)
(* config-manager: the converters, which give the text to set a variable   *)
(* to.                                                                     *)
(***************************************************************************)
\* Number.prototype.toString, radix 10: digits with the point where it falls
\* for 1e-7 <= |x| < 1e21, and otherwise one digit, the rest as fraction,
\* and the exponent
NumberToString(x) ==
  LET k == Len(x.digits)
      n == x.exp + k
      text == [i \in 1..k |-> DigitChars[x.digits[i] + 1]]
      unsigned ==
        IF k = 0 THEN <<"0">>
        ELSE IF k <= n /\ n <= 21 THEN text \o Repeat("0", n - k)
        ELSE IF 0 < n /\ n <= 21 THEN SubSeq(text, 1, n) \o <<".">> \o Drop(text, n)
        ELSE IF -6 < n /\ n <= 0 THEN <<"0", ".">> \o Repeat("0", 0 - n) \o text
        ELSE (IF k = 1 THEN text ELSE <<text[1], ".">> \o Drop(text, 1))
               \o (IF n - 1 < 0 THEN <<"e", "-">> \o NatText(1 - n)
                                ELSE <<"e", "+">> \o NatText(n - 1))
  IN IF x.kind = "NaN" THEN <<"N", "a", "N">>
     ELSE IF x.kind = "Infinity"
     THEN (IF x.neg THEN <<"-">> ELSE <<>>) \o <<"I", "n", "f", "i", "n", "i", "t", "y">>
     ELSE IF x.neg /\ k > 0 THEN <<"-">> \o unsigned
     ELSE unsigned

\* new Error(`Invalid value for environment variable: ${variableName}`)
InvalidValueError(variableName) ==
  JError(ErrorClassName,
         <<"I", "n", "v", "a", "l", "i", "d", " ", "v", "a", "l", "u", "e", " ", "f", "o", "r", " ", "e", "n", "v", "i", "r", "o", "n", "m", "e", "n", "t", " ", "v", "a", "r", "i", "a", "b", "l", "e", ":", " ">>
           \o variableName)

\* z.string() accepts every string, of any length
fromString(variableName, value) ==
  IF value.t # "string"
  THEN [threw |-> TRUE, value |-> InvalidValueError(variableName)]
  ELSE [threw |-> FALSE, value |-> JStr(value.v)]

fromBoolean(variableName, value) ==
  IF value.t # "boolean"
  THEN [threw |-> TRUE, value |-> InvalidValueError(variableName)]
  ELSE [threw |-> FALSE, value |-> JStr(IF value.v THEN TrueText ELSE FalseText)]

\* z.number() accepts the finite numbers
fromNumber(variableName, value) ==
  IF ~(value.t = "number" /\ value.kind = "finite")
  THEN [threw |-> TRUE, value |-> InvalidValueError(variableName)]
  ELSE [threw |-> FALSE, value |-> JStr(NumberToString(value))]

\* the values the converters are called with: strings, booleans, numbers
\* (0, -0, 42, -123, 3000, 30.5, 0.001, 0.000001, 1e-7, 1234567890, 1e10,
\* 123456.789, -123456.789, Math.PI, 1e21) and values of no accepted type
ConverterValues ==
  {JStr(s) : s \in SeqsUpTo({"a", " ", "1"}, MaxStrLen)
                     \cup {<<"v", "a", "l", "i", "d", "_", "s", "t", "r", "i", "n", "g">>, TrueText, <<"4", "2">>,
                           Repeat("a", 1000), Repeat("a", 1001)}}
    \cup {JBool(TRUE), JBool(FALSE), JNull, JUndefined, NaN, Infinity(FALSE), Infinity(TRUE)}
    \cup {Finite(FALSE, <<>>, 0), Finite(TRUE, <<>>, 0), Finite(FALSE, <<4, 2>>, 0),
          Finite(TRUE, <<1, 2, 3>>, 0), Finite(FALSE, <<3>>, 3), Finite(FALSE, <<3, 0, 5>>, 0 - 1),
          Finite(FALSE, <<1>>, 0 - 3), Finite(FALSE, <<1>>, 0 - 6), Finite(FALSE, <<1>>, 0 - 7),
          Finite(FALSE, <<1, 2, 3, 4, 5, 6, 7, 8, 9>>, 1), Finite(FALSE, <<1>>, 10),
          Finite(FALSE, <<1, 2, 3, 4, 5, 6, 7, 8, 9>>, 0 - 3),
          Finite(TRUE, <<1, 2, 3, 4, 5, 6, 7, 8, 9>>, 0 - 3),
          Finite(FALSE, <<3, 1, 4, 1, 5, 9, 2, 6, 5, 3, 5, 8, 9, 7, 9, 3>>, 0 - 15),
          Finite(FALSE, <<1>>, 21)}

\* the environments and calls the getters are run with

\* every string of up to MaxEnvLen characters of a numeric string, and the
\* values of the tests
EnvValues ==
  SeqsUpTo({"0", "1", "-", ".", "e", " "}, MaxEnvLen) \cup
    {<<"t", "r", "u", "e">>,
     <<"T", "R", "U", "E">>,
     <<"t", "R", "u", "E">>,
     <<"f", "a", "l", "s", "e">>,
     <<"F", "A", "L", "S", "E">>,
     <<"F", "a", "l", "s", "e">>,
     <<"m", "a", "y", "b", "e">>,
     <<"t", "o", "o", "l", "o", "n", "g">>,
     <<"t", "r", "u", "e", " ">>,
     <<"y", "e", "s">>,
     <<"4", "2">>,
     <<"-", "1", "2", "3">>,
     <<"3", ".", "1", "4">>,
     <<"0", "0", "7">>,
     <<" ", "4", "2", " ">>,
     <<"1", "e", "3">>,
     <<"0", "x", "1", "F">>,
     <<"0", "b", "1", "0", "1">>,
     <<"I", "n", "f", "i", "n", "i", "t", "y">>,
     <<"-", "I", "n", "f", "i", "n", "i", "t", "y">>,
     <<"1", "e", "3", "0", "9">>,
     <<"1", "2", "3", "4", "5", "6", "7", "8", "9", "0">>,
     <<"1", "2", "3", "4", "5", "6", "7", "8", "9", "0", "1">>,
     <<"9", "9", "9", "9", "9", "9", "9", "9", "9", "9">>,
     <<"0", "x", "F", "F", "F", "F", "F", "F", "F", "F">>,
     <<"n", "o", "t", "_", "a", "_", "n", "u", "m", "b", "e", "r">>,
     <<"1", "2", "p", "x">>,
     <<"1", "_", "0", "0", "0">>,
     <<" ", " ", " ", " ", " ">>,
     <<" ", " ", " ", " ", " ", " ", " ", " ", " ", " ", " ">>,
     <<"v", "a", "l", "i", "d", "_", "s", "t", "r", "i", "n", "g">>,
     <<"a", "b">>,
     <<"a">>,
     Repeat("a", 100), Repeat("a", 101), Repeat("a", 1000), Repeat("a", 1001)}

TestVar == <<"T", "E", "S", "T", "_", "V", "A", "R">>
TestVar2 == <<"T", "E", "S", "T", "_", "V", "A", "R", "_", "2">>
VariableNames == {TestVar, TestVar2}

\* TEST_VAR holds any of the values or is not set; TEST_VAR_2 one of a few
Envs ==
  {[n \in VariableNames |-> IF n = TestVar THEN first ELSE second] :
     first \in {<<>>} \cup {<<v>> : v \in EnvValues},
     second \in {<<>>, <<TrueText>>, <<<<"4", "2">>>>,
                 <<<<"1", "2", "3", "4", "5", "6", "7", "8", "9", "0", "1">>>>}}

ConfigCalls ==
  [fn : {"getString", "getBoolean", "getNumber"}, variableNames : {<<n>> : n \in VariableNames}]
    \cup [fn : {"get", "getStrings", "getBooleans", "getNumbers"},
          variableNames : SeqsUpTo(VariableNames, MaxNames)]

\* what the call returns (threw = FALSE) or throws (threw = TRUE)
RunConfigCall(env, call) ==
  CASE call.fn = "getString" -> getString(env, call.variableNames[1])
    [] call.fn = "getBoolean" -> getBoolean(env, call.variableNames[1])
    [] call.fn = "getNumber" -> getNumber(env, call.variableNames[1])
    [] call.fn = "get" -> get(env, call.variableNames)
    [] call.fn = "getStrings" -> getStrings(env, call.variableNames)
    [] call.fn = "getBooleans" -> getBooleans(env, call.variableNames)
    [] call.fn = "getNumbers" -> getNumbers(env, call.variableNames)

ConverterCalls ==
  [fn : {"fromString", "fromBoolean", "fromNumber"}, variableName : VariableNames,
   value : ConverterValues]

(***************************************************************************)
(* dns: sanitiseDnsString and the generators of the API, web and auth      *)
(* domains of a stage.                                                     *)
(***************************************************************************)
\* Stage.prod
StageProd == <<"p", "r", "o", "d">>

\* the sanitiser with the trim alone
sanitiseDnsStringTrimOnly(dnsString) == ToLowerCase(Trim(dnsString))

\* dnsString.trim().replace(/\s+/g, '').toLowerCase()
sanitiseDnsString(dnsString) ==
  LET NotWhiteSpace(c) == c \notin {" ", "\t", "\n", "\r"}
  IN ToLowerCase(SelectSeq(Trim(dnsString), NotWhiteSpace))

\* the API generator that decides on the sanitised stage name
generateApiSubDomainSanitisedProd(stageName, domainName) ==
  LET Build(sanitisedDomainName, sanitisedStageName) ==
        <<"a", "p", "i">>
          \o (IF sanitisedStageName = StageProd THEN <<>> ELSE <<"-">> \o sanitisedStageName)
          \o <<".">> \o sanitisedDomainName
  IN Build(sanitiseDnsString(domainName), sanitiseDnsString(stageName))

\* `api${stageValue}.${sanitisedDomainName}`
generateApiSubDomain(stageName, domainName) ==
  LET Build(sanitisedDomainName, sanitisedStageName) ==
        <<"a", "p", "i">>
          \o (IF stageName = StageProd THEN <<>> ELSE <<"-">> \o sanitisedStageName)
          \o <<".">> \o sanitisedDomainName
  IN Build(sanitiseDnsString(domainName), sanitiseDnsString(stageName))

\* the web generator with stage 'prod' in production
generateWebSubDomainStageProd(stageName, domainName) ==
  LET Build(sanitisedDomainName, sanitisedStageName) ==
        [stage |-> sanitisedStageName,
         subDomain |-> IF stageName = StageProd
                       THEN sanitisedDomainName
                       ELSE sanitisedStageName \o <<".">> \o sanitisedDomainName]
  IN Build(sanitiseDnsString(domainName), sanitiseDnsString(stageName))

generateWebSubDomain(stageName, domainName) ==
  LET Build(sanitisedDomainName, sanitisedStageName) ==
        [stage |-> IF stageName = StageProd THEN <<"w", "w", "w">> ELSE sanitisedStageName,
         subDomain |-> IF stageName = StageProd
                       THEN sanitisedDomainName
                       ELSE sanitisedStageName \o <<".">> \o sanitisedDomainName]
  IN Build(sanitiseDnsString(domainName), sanitiseDnsString(stageName))

\* the auth generator that decides on the sanitised stage name
generateAuthDomainSanitisedProd(stageName, domainName) ==
  LET Build(sanitisedDomainName, sanitisedStageName) ==
        [subDomain |-> <<"a", "u", "t", "h">>
                         \o (IF sanitisedStageName = StageProd THEN <<>>
                                                                ELSE <<"-">> \o sanitisedStageName)
                         \o <<".">> \o sanitisedDomainName,
         stage |-> IF sanitisedStageName = StageProd THEN <<"w", "w", "w">>
                                                     ELSE sanitisedStageName]
  IN Build(sanitiseDnsString(domainName), sanitiseDnsString(stageName))

generateAuthDomain(stageName, domainName) ==
  LET Build(sanitisedDomainName, sanitisedStageName) ==
        [subDomain |-> <<"a", "u", "t", "h">>
                         \o (IF stageName = StageProd THEN <<>>
                                                       ELSE <<"-">> \o sanitisedStageName)
                         \o <<".">> \o sanitisedDomainName,
         stage |-> IF stageName = StageProd THEN <<"w", "w", "w">> ELSE sanitisedStageName]
  IN Build(sanitiseDnsString(domainName), sanitiseDnsString(stageName))

\* the strings the functions are called with: every string of up to
\* MaxStrLen of these characters, and strings of the tests and READMEs
DnsStrings ==
  SeqsUpTo({"a", "B", "1", "-", ".", "_", " ", "\t", "\n", "\r"}, MaxStrLen) \cup
    {StageProd, <<"w", "w", "w">>, <<" ", "W", "W", "W", " ">>,
     <<"P", "R", "O", "D">>,
     <<" ", "p", "r", "o", "d", " ">>,
     <<"P", "r", "o", "d">>,
     <<"p", "r", "o", " ", "d">>,
     <<"d", "e", "v", "e", "l", "o", "p">>,
     <<"s", "t", "a", "g", "i", "n", "g">>,
     <<"t", "e", "s", "t">>,
     <<"p", "r", "-", "1", "2", "3">>,
     <<"f", "e", "a", "t", "u", "r", "e", "-", "1", "2", "3">>,
     <<"F", "e", "a", "t", "u", "r", "e", " ", "B", "r", "a", "n", "c", "h">>,
     <<" ", " ", "M", "y", " ", "D", "o", "m", "a", "i", "n", " ", "N", "a", "m", "e", " ", " ">>,
     <<"A", "P", "I", "-", "G", "A", "T", "E", "W", "A", "Y", ".", "T", "E", "S", "T", ".", "L", "O", "C", "A", "L">>,
     <<"s", "e", "r", "v", "i", "c", "e", "_", "1", "2", "3">>,
     <<"M", "y", " ", "A", "p", "p", ".", "e", "x", "a", "m", "p", "l", "e", ".", "c", "o", "m">>,
     <<"a", "p", "i", "\r", "\n", "g", "a", "t", "e", "w", "a", "y", "\t", "s", "e", "r", "v", "i", "c", "e">>,
     <<" ", "\t", " ", "\n", " ", "\r", " ">>}

DnsCalls ==
  LET DomainNames ==
        {<<"e", "x", "a", "m", "p", "l", "e", ".", "c", "o", "m">>,
         <<"m", "y", "-", "s", "u", "b", "-", "d", "o", "m", "a", "i", "n", ".", "e", "x", "a", "m", "p", "l", "e", ".", "c", "o", "m">>,
         <<" ", "E", "x", "a", "m", "p", "l", "e", ".", "C", "O", "M", " ">>,
         <<"p", "r", "o", "d">>}
  IN [fn : {"sanitiseDnsString"}, args : {<<s>> : s \in DnsStrings}] \cup
       [fn : {"generateApiSubDomain", "generateWebSubDomain", "generateAuthDomain"},
        args : DnsStrings \X DomainNames]

(***************************************************************************)
(* One invocation of the handler withHttpHandler returns.                  *)
(***************************************************************************)
Resolved(result) == [kind |-> "resolved", value |-> result]
Rejected(error) == [kind |-> "rejected", value |-> error]

\* every component but the active one is as it is before any call of it
Idle(active) ==
  /\ IF active = "pipeline" THEN TRUE
     ELSE /\ pc = "idle"
          /\ calls = 0
          /\ outcome = <<>>
          /\ logs = <<>>
          /\ thrown = <<>>
          /\ responses = <<>>
          /\ propagated = FALSE
          /\ event = <<>>
          /\ handlerArgs = <<>>
  /\ IF active = "getHeaders" THEN TRUE
     ELSE hdrOverrides = NoOverrides /\ hdrResult = <<>>
  /\ IF active = "errorHandler" THEN TRUE
     ELSE ehError = JSymbol /\ ehResult = <<>>
  /\ IF active = "validateSchema" THEN TRUE
     ELSE vsSchema = <<>> /\ vsData = JUndefined /\ vsResult = <<>>
  /\ IF active = "stripInternalKeys" THEN TRUE
     ELSE skItem = <<>> /\ skKeysToStrip = <<>> /\ skExtraKeysToStrip = <<>> /\ skResult = <<>>
  /\ IF active \in {"config-manager", "converters"} THEN TRUE
     ELSE cfgEnv = <<>> /\ cfgCall = <<>> /\ cfgResult = <<>>
  /\ IF active = "converters" THEN TRUE
     ELSE cvCall = <<>> /\ cvResult = <<>>
  /\ IF active = "dns" THEN TRUE
     ELSE dnsCall = <<>> /\ dnsResult = <<>>
  /\ IF active = "concurrent" THEN TRUE
     ELSE invocations = <<>> /\ headerObjects = <<>>

\* the API Gateway events the handler is invoked with
Events ==
  {[httpMethod |-> "GET", path |-> "/users", body |-> JNull],
   [httpMethod |-> "POST", path |-> "/users", body |-> JStr(<<"{", "}">>)]}

\* the argument of handlerFn: { event }
HandlerFnArgs(ev) == [event |-> ev]

\* before the first invocation the pipeline is idle, like everything else
Init == Idle("")

\* baseHandler calls handlerFn({ event }) and awaits it
Invoke ==
  /\ pc = "idle"
  /\ pc' = "awaiting"
  /\ calls' = calls + 1
  /\ \E ev \in Events :
       /\ event' = <<ev>>
       /\ handlerArgs' = <<HandlerFnArgs(ev)>>
  /\ UNCHANGED <<concurrentVars, dnsVars, outcome, logs, thrown, responses, propagated, headersVars, errorHandlerVars, schemaVars, stripVars, configVars,
                 converterVars>>

Continue(settled, r) ==
  /\ outcome' = <<settled>>
  /\ logs' = logs \o r.logs
  /\ thrown' = r.thrown
  /\ responses' = responses \o r.response
  /\ pc' = IF r.returned THEN "done" ELSE "onError"
  /\ UNCHANGED <<concurrentVars, dnsVars, calls, propagated, event, handlerArgs, headersVars, errorHandlerVars, schemaVars, stripVars, configVars,
                 converterVars>>

\* the promise of handlerFn resolves: the rest of the try block runs
HandlerResolves ==
  /\ pc = "awaiting"
  /\ \E result \in Results : Continue(Resolved(result), TryBlock(result))

\* a rejection that makes baseHandler call handlerFn again
HandlerRejectsRetry ==
  /\ pc = "awaiting"
  /\ pc' = "idle"
  /\ UNCHANGED <<concurrentVars, dnsVars, calls, outcome, logs, thrown, responses, propagated, event, handlerArgs,
                 headersVars, errorHandlerVars, schemaVars, stripVars, configVars,
                 converterVars>>

\* the promise of handlerFn rejects (or handlerFn throws): the catch block runs
HandlerRejects ==
  /\ pc = "awaiting"
  /\ \E error \in ThrownValues : Continue(Rejected(error), CatchBlock(error))

\* middy runs the onError hooks on the error baseHandler rejected with and
\* rethrows it to the caller when no hook has set a response
OnError ==
  /\ pc = "onError"
  /\ LET r == httpErrorHandler(thrown[1])
     IN /\ responses' = responses \o r
        /\ propagated' = (r = <<>>)
  /\ pc' = "done"
  /\ UNCHANGED <<concurrentVars, dnsVars, calls, outcome, logs, thrown, event, handlerArgs, headersVars, errorHandlerVars, schemaVars, stripVars, configVars,
                 converterVars>>

\* the handler is invoked again, for the next request
NextInvocation ==
  /\ pc = "done"
  /\ pc' = "idle"
  /\ calls' = 0
  /\ outcome' = <<>>
  /\ logs' = <<>>
  /\ thrown' = <<>>
  /\ responses' = <<>>
  /\ propagated' = FALSE
  /\ event' = <<>>
  /\ handlerArgs' = <<>>
  /\ UNCHANGED <<concurrentVars, dnsVars, headersVars, errorHandlerVars, schemaVars, stripVars, configVars,
                 converterVars>>

Next == Invoke \/ HandlerResolves \/ HandlerRejects \/ OnError \/ NextInvocation

Spec == Init /\ [][Next]_vars

(***************************************************************************)
(* Several invocations of one withHttpHandler handler in flight at once.   *)
(* A response refers to its headers object, and the caller may write to    *)
(* the object it was given.                                                *)
(***************************************************************************)
\* getHeaders returning the one object it built on its first call
getHeadersReferenceShared(objects) == IF objects = <<>> THEN Len(objects) + 1 ELSE 1

\* getHeaders returns an object literal: a new object on every call
getHeadersReference(objects) == Len(objects) + 1

ConcurrentInit ==
  /\ Idle("concurrent")
  /\ invocations = [i \in 1 .. MaxInvocations |->
                      [pc |-> "idle", outcome |-> <<>>, response |-> <<>>, written |-> FALSE]]
  /\ headerObjects = <<>>

\* baseHandler calls handlerFn({ event }) and awaits it
InvokeConcurrently(i) ==
  /\ invocations[i].pc = "idle"
  /\ invocations' = [invocations EXCEPT ![i].pc = "awaiting"]
  /\ UNCHANGED <<headerObjects, dnsVars, pipelineVars, headersVars, errorHandlerVars,
                 schemaVars, stripVars, configVars, converterVars>>

\* handlerFn settles: the try block builds the response with getHeaders(),
\* or the catch block throws and httpErrorHandler builds it
InvocationSettles(i) ==
  /\ invocations[i].pc = "awaiting"
  /\ \E settled \in {Resolved([body |-> JStr(OkText)]),
                      Resolved([statusCode |-> 201, body |-> JNull]),
                      Rejected(ValidationError(EmailIsRequired)),
                      Rejected(JError(ErrorClassName, DbDown))} :
       LET Return(response, reference) ==
             /\ headerObjects' =
                  IF response # <<>> /\ reference = Len(headerObjects) + 1
                  THEN Append(headerObjects, response[1].headers)
                  ELSE headerObjects
             /\ invocations' =
                  [invocations EXCEPT
                     ![i] = [pc |-> "done",
                             outcome |-> <<settled>>,
                             response |-> IF response = <<>> THEN <<>>
                                          ELSE <<[response[1] EXCEPT !.headers = reference]>>,
                             written |-> FALSE]]
           Finish(r) ==
             IF r.returned
             THEN Return(r.response, getHeadersReference(headerObjects))
             ELSE Return(httpErrorHandler(r.thrown[1]), Len(headerObjects) + 1)
       IN Finish(IF settled.kind = "resolved" THEN TryBlock(settled.value)
                 ELSE CatchBlock(settled.value))
  /\ UNCHANGED <<dnsVars, pipelineVars, headersVars, errorHandlerVars,
                 schemaVars, stripVars, configVars, converterVars>>

\* the caller sets a header on the response object it was given
CallerSetsHeader(i) ==
  /\ invocations[i].pc = "done"
  /\ invocations[i].response # <<>>
  /\ ~invocations[i].written
  /\ headerObjects' =
       [headerObjects EXCEPT
          ![invocations[i].response[1].headers] =
             [@ EXCEPT !["Content-Type"] = JStr("text/html")]]
  /\ invocations' = [invocations EXCEPT ![i].written = TRUE]
  /\ UNCHANGED <<dnsVars, pipelineVars, headersVars, errorHandlerVars,
                 schemaVars, stripVars, configVars, converterVars>>

ConcurrentNext ==
  \E i \in 1 .. MaxInvocations :
    InvokeConcurrently(i) \/ InvocationSettles(i) \/ CallerSetsHeader(i)

SpecConcurrent == ConcurrentInit /\ [][ConcurrentNext]_vars

(***************************************************************************)
(* getHeaders called on its own, with and without overrides.               *)
(***************************************************************************)
OverrideSets ==
  UNION {[ks -> {JStr("text/html"), JStr("SAMEORIGIN"), JBool(FALSE)}] :
           ks \in SUBSET {"Content-Type", "X-Frame-Options",
                          "Access-Control-Allow-Credentials", "Custom-Header"}}

HeadersInit ==
  /\ Idle("getHeaders")
  /\ hdrOverrides \in OverrideSets
  /\ hdrResult = <<>>

CallGetHeaders ==
  /\ hdrResult = <<>>
  /\ hdrResult' = <<getHeaders(hdrOverrides)>>
  /\ UNCHANGED <<concurrentVars, dnsVars, pipelineVars, errorHandlerVars, schemaVars, stripVars, configVars,
                 converterVars, hdrOverrides>>

NextCall ==
  /\ hdrResult # <<>>
  /\ hdrOverrides' \in OverrideSets
  /\ hdrResult' = <<>>
  /\ UNCHANGED <<concurrentVars, dnsVars, pipelineVars, errorHandlerVars, schemaVars, stripVars, configVars,
                 converterVars>>

HeadersNext == CallGetHeaders \/ NextCall

SpecHeaders == HeadersInit /\ [][HeadersNext]_vars

(***************************************************************************)
(* errorHandler called on its own, as in its tests.                        *)
(***************************************************************************)
ErrorHandlerInit ==
  /\ Idle("errorHandler")
  /\ ehError \in ThrownValues
  /\ ehResult = <<>>

CallErrorHandler ==
  /\ ehResult = <<>>
  /\ ehResult' = <<errorHandler(ehError)>>
  /\ UNCHANGED <<concurrentVars, dnsVars, pipelineVars, headersVars, schemaVars, stripVars, configVars,
                 converterVars, ehError>>

NextErrorHandlerCall ==
  /\ ehResult # <<>>
  /\ ehError' \in ThrownValues
  /\ ehResult' = <<>>
  /\ UNCHANGED <<concurrentVars, dnsVars, pipelineVars, headersVars, schemaVars, stripVars, configVars,
                 converterVars>>

ErrorHandlerNext == CallErrorHandler \/ NextErrorHandlerCall

SpecErrorHandler == ErrorHandlerInit /\ [][ErrorHandlerNext]_vars

(***************************************************************************)
(* validateSchema called on its own.                                       *)
(***************************************************************************)
SchemaInit ==
  /\ Idle("validateSchema")
  /\ vsSchema \in Schemas
  /\ vsData \in SchemaData
  /\ vsResult = <<>>

CallValidateSchema ==
  /\ vsResult = <<>>
  /\ vsResult' = <<validateSchema(vsSchema, vsData)>>
  /\ UNCHANGED <<concurrentVars, dnsVars, pipelineVars, headersVars, errorHandlerVars, stripVars, configVars,
                 converterVars, vsSchema, vsData>>

NextValidateSchemaCall ==
  /\ vsResult # <<>>
  /\ vsSchema' \in Schemas
  /\ vsData' \in SchemaData
  /\ vsResult' = <<>>
  /\ UNCHANGED <<concurrentVars, dnsVars, pipelineVars, headersVars, errorHandlerVars, stripVars, configVars,
                 converterVars>>

SchemaNext == CallValidateSchema \/ NextValidateSchemaCall

SpecSchema == SchemaInit /\ [][SchemaNext]_vars

(***************************************************************************)
(* stripInternalKeys called on its own.                                    *)
(***************************************************************************)
StripInit ==
  /\ Idle("stripInternalKeys")
  /\ skItem \in Items
  /\ skKeysToStrip \in KeysToStripArgs
  /\ skExtraKeysToStrip \in ExtraKeysToStripArgs
  /\ skResult = <<>>

CallStripInternalKeys ==
  /\ skResult = <<>>
  /\ LET r == stripInternalKeys(skItem, skKeysToStrip, skExtraKeysToStrip)
     IN /\ skItem' = r.item
        /\ skKeysToStrip' = r.keysToStrip
        /\ skExtraKeysToStrip' = r.extraKeysToStrip
        /\ skResult' = <<r.result>>
  /\ UNCHANGED <<concurrentVars, dnsVars, pipelineVars, headersVars, errorHandlerVars, schemaVars, configVars,
                 converterVars>>

\* the caller strips the item again, with other keys
NextStripCall ==
  /\ skResult # <<>>
  /\ skKeysToStrip' \in KeysToStripArgs
  /\ skResult' = <<>>
  /\ UNCHANGED <<concurrentVars, dnsVars, pipelineVars, headersVars, errorHandlerVars, schemaVars, configVars,
                 converterVars, skItem, skExtraKeysToStrip>>

StripNext == CallStripInternalKeys \/ NextStripCall

SpecStrip == StripInit /\ [][StripNext]_vars

(***************************************************************************)
(* The config-manager getters called on an environment.                    *)
(***************************************************************************)
ConfigInit ==
  /\ Idle("config-manager")
  /\ cfgEnv \in Envs
  /\ cfgCall \in {<<c>> : c \in ConfigCalls}
  /\ cfgResult = <<>>

CallGetter ==
  /\ cfgCall # <<>>
  /\ cfgResult = <<>>
  /\ cfgResult' = <<RunConfigCall(cfgEnv, cfgCall[1])>>
  /\ UNCHANGED <<concurrentVars, dnsVars, pipelineVars, headersVars, errorHandlerVars, schemaVars, stripVars,
                 converterVars, cfgEnv, cfgCall>>

\* the program goes on to its next call, in the same environment
NextConfigCall ==
  /\ cfgResult # <<>>
  /\ cfgCall' \in {<<c>> : c \in ConfigCalls}
  /\ cfgResult' = <<>>
  /\ UNCHANGED <<concurrentVars, dnsVars, pipelineVars, headersVars, errorHandlerVars, schemaVars, stripVars,
                 converterVars, cfgEnv>>

ConfigNext == CallGetter \/ NextConfigCall

SpecConfig == ConfigInit /\ [][ConfigNext]_vars

(***************************************************************************)
(* A variable is set to what a converter returns and read with the getter  *)
(* of the same type, in an environment that is reset before each round.    *)
(***************************************************************************)
ConvertersInit ==
  /\ Idle("converters")
  /\ cfgEnv = [n \in VariableNames |-> <<>>]
  /\ cfgCall = <<>>
  /\ cfgResult = <<>>
  /\ cvCall \in {<<c>> : c \in ConverterCalls}
  /\ cvResult = <<>>

CallConverter ==
  /\ cvResult = <<>>
  /\ cvResult' =
       <<CASE cvCall[1].fn = "fromString" ->
                fromString(cvCall[1].variableName, cvCall[1].value)
           [] cvCall[1].fn = "fromBoolean" ->
                fromBoolean(cvCall[1].variableName, cvCall[1].value)
           [] cvCall[1].fn = "fromNumber" ->
                fromNumber(cvCall[1].variableName, cvCall[1].value)>>
  /\ UNCHANGED <<concurrentVars, dnsVars, pipelineVars, headersVars, errorHandlerVars, schemaVars, stripVars,
                 configVars, cvCall>>

\* process.env.NAME = what the converter returned; the getter of the same
\* type is called next
SetVariable ==
  /\ cvResult # <<>>
  /\ ~cvResult[1].threw
  /\ cfgCall = <<>>
  /\ cfgEnv' = [cfgEnv EXCEPT ![cvCall[1].variableName] = <<cvResult[1].value.v>>]
  /\ cfgCall' = <<[fn |-> CASE cvCall[1].fn = "fromString" -> "getString"
                             [] cvCall[1].fn = "fromBoolean" -> "getBoolean"
                             [] cvCall[1].fn = "fromNumber" -> "getNumber",
                   variableNames |-> <<cvCall[1].variableName>>]>>
  /\ UNCHANGED <<concurrentVars, dnsVars, pipelineVars, headersVars, errorHandlerVars, schemaVars, stripVars,
                 converterVars, cfgResult>>

\* the next round, once the converter has thrown or the getter has run
NextConversion ==
  /\ cvResult # <<>>
  /\ cvResult[1].threw \/ cfgResult # <<>>
  /\ cfgEnv' = [n \in VariableNames |-> <<>>]
  /\ cfgCall' = <<>>
  /\ cfgResult' = <<>>
  /\ cvCall' \in {<<c>> : c \in ConverterCalls}
  /\ cvResult' = <<>>
  /\ UNCHANGED <<concurrentVars, dnsVars, pipelineVars, headersVars, errorHandlerVars, schemaVars, stripVars>>

ConvertersNext == CallConverter \/ SetVariable \/ CallGetter \/ NextConversion

SpecConverters == ConvertersInit /\ [][ConvertersNext]_vars

(***************************************************************************)
(* Calls of sanitiseDnsString and of the domain generators.                *)
(***************************************************************************)
DnsInit ==
  /\ Idle("dns")
  /\ dnsCall \in {<<c>> : c \in DnsCalls}
  /\ dnsResult = <<>>

CallDns ==
  /\ dnsResult = <<>>
  /\ dnsResult' =
       <<CASE dnsCall[1].fn = "sanitiseDnsString" -> sanitiseDnsString(dnsCall[1].args[1])
           [] dnsCall[1].fn = "generateApiSubDomain" ->
                generateApiSubDomain(dnsCall[1].args[1], dnsCall[1].args[2])
           [] dnsCall[1].fn = "generateWebSubDomain" ->
                generateWebSubDomain(dnsCall[1].args[1], dnsCall[1].args[2])
           [] dnsCall[1].fn = "generateAuthDomain" ->
                generateAuthDomain(dnsCall[1].args[1], dnsCall[1].args[2])>>
  /\ UNCHANGED <<concurrentVars, pipelineVars, headersVars, errorHandlerVars, schemaVars, stripVars,
                 configVars, converterVars, dnsCall>>

\* the same stage and domain are then given to another of the generators
NextDnsCall ==
  /\ dnsResult # <<>>
  /\ dnsCall' \in {<<c>> : c \in DnsCalls}
  /\ dnsCall'[1].args = dnsCall[1].args
  /\ dnsResult' = <<>>
  /\ UNCHANGED <<concurrentVars, pipelineVars, headersVars, errorHandlerVars, schemaVars, stripVars,
                 configVars, converterVars>>

DnsNext == CallDns \/ NextDnsCall

SpecDns == DnsInit /\ [][DnsNext]_vars

(***************************************************************************)
(* Properties.                                                             *)
(***************************************************************************)
Done == pc = "done"
DoneResolved == Done /\ outcome[1].kind = "resolved"
DoneRejected == Done /\ outcome[1].kind = "rejected"

\* the bodies JSON.stringify accepts, and those it turns into a JSON text
Stringifiable(body) == body.t # "circular"
JsonSerializable(body) == body.t \notin {"undefined", "circular"}

\* the six names the exported error classes give their instances
KnownNames ==
  {ValidationErrorName, UnauthorisedErrorName, ForbiddenErrorName, ResourceNotFoundName,
   ConflictErrorName, TooManyRequestsErrorName}

KnownKind(error) == error.t = "Error" /\ error.name \in KnownNames

\* the error-kind -> status table
KindStatus(name) ==
  CASE name = ValidationErrorName -> 400
    [] name = UnauthorisedErrorName -> 401
    [] name = ForbiddenErrorName -> 403
    [] name = ResourceNotFoundName -> 404
    [] name = ConflictErrorName -> 409
    [] name = TooManyRequestsErrorName -> 429

\* C1: every invocation, whatever the business function returned or threw
\* (a known error, an unknown Error, a non-Error value), ends with exactly
\* one response and no exception reaches the caller.
OneResponseNeverThrows ==
  /\ ~propagated
  /\ Len(responses) <= 1
  /\ Done => Len(responses) = 1

OneResponseNeverThrowsWitness ==
  /\ DoneRejected
  /\ outcome[1].value.t = "symbol"
  /\ Len(responses) = 1
  /\ ~propagated

\* C2: an instance of one of the six exported error classes with message m
\* gives the status of its kind, and the client gets m as the error text.
KnownErrorStatusAndMessage ==
  (DoneRejected /\ KnownKind(outcome[1].value)) =>
    /\ responses[1].statusCode = KindStatus(outcome[1].value.name)
    /\ responses[1].body = JStr(outcome[1].value.message)

KnownErrorStatusAndMessageWitness ==
  /\ DoneRejected
  /\ outcome[1].value = JError(ResourceNotFoundName, EmailIsRequired)
  /\ responses[1].statusCode = 404
  /\ responses[1].body = JStr(EmailIsRequired)

\* C3: anything thrown that is not of a known kind gives one and the same
\* response, status 500 with the message 'An error has occurred', whatever
\* the name and the message of what was thrown.
UnknownErrorResponse ==
  [statusCode |-> 500,
   headers |-> ("Content-Type" :> JStr("text/plain")),
   body |-> JStr(FallbackMessage)]

UnknownErrorIsGeneric ==
  (DoneRejected /\ ~KnownKind(outcome[1].value)) => responses[1] = UnknownErrorResponse

UnknownErrorIsGenericWitness ==
  /\ DoneRejected
  /\ outcome[1].value = JError(ErrorClassName, DbDown)
  /\ responses[1].statusCode = 500
  /\ responses[1].body = JStr(FallbackMessage)

\* the message errorHandler classifies a thrown value with
ClassifiedMessage(error) == IF KnownKind(error) THEN error.message ELSE FallbackMessage

\* C4: on every error path the body is the JSON text of the object
\* { error: <classified message>, statusCode: <the response's statusCode> }.
ErrorBodyIsJsonObject ==
  DoneRejected =>
    responses[1].body =
      JStr(SerializeJSON(JObj(<<<<ErrorKey, JStr(ClassifiedMessage(outcome[1].value))>>,
                                <<StatusCodeKey, JNum(responses[1].statusCode)>>>>)))

\* C5: on a normal return with a body that can be serialized the response status is
\* 200 when the result has no statusCode field, and the given value when it
\* has one, 0 included.
StatusDefaultsOnlyWhenAbsent ==
  (DoneResolved /\ Stringifiable(outcome[1].value.body)) =>
    responses[1].statusCode =
      (IF "statusCode" \in DOMAIN outcome[1].value THEN outcome[1].value.statusCode ELSE 200)

StatusDefaultsOnlyWhenAbsentWitness ==
  /\ DoneResolved
  /\ "statusCode" \in DOMAIN outcome[1].value
  /\ outcome[1].value.statusCode = 0
  /\ responses[1].statusCode = 0

\* C6: on a normal return with a JSON-serializable body, the response body
\* is a string that JSON.parse turns back into the body that was returned.
BodyRoundTrips ==
  (DoneResolved /\ JsonSerializable(outcome[1].value.body)) =>
    /\ responses[1].body.t = "string"
    /\ JSONparse(responses[1].body.v) = [threw |-> FALSE, v |-> outcome[1].value.body]

BodyRoundTripsWitness ==
  /\ DoneResolved
  /\ outcome[1].value.body = JObj(<<<<MessageKey, JStr(<<"\"">>)>>>>)
  /\ responses[1].body.t = "string"
  /\ JSONparse(responses[1].body.v).v = outcome[1].value.body

\* C7: every response, of the success branch and of the error branch,
\* carries the eleven default headers with their default values.
DefaultHeadersOnEveryResponse ==
  (DoneRejected \/ (DoneResolved /\ Stringifiable(outcome[1].value.body))) =>
    \A k \in DOMAIN DefaultHeaders :
      /\ k \in DOMAIN responses[1].headers
      /\ responses[1].headers[k] = DefaultHeaders[k]

CalledOnceAndAwaited ==
  /\ calls <= 1
  /\ pc # "idle" => calls = 1
  /\ responses # <<>> => (outcome # <<>> /\ calls = 1)
  /\ pc = "awaiting" => (outcome = <<>> /\ responses = <<>>)

CalledOnceAndAwaitedWitness ==
  /\ DoneRejected
  /\ calls = 1
  /\ Len(responses) = 1

\* the status errorHandler is to give a thrown value
ExpectedStatus(error) == IF KnownKind(error) THEN KindStatus(error.name) ELSE 500

\* C11: for every input - an Error with any name, any non-Error value -
\* errorHandler throws an HTTP error with the status of the name (500 for
\* everything else), whose message is the original message for the six
\* known names and 'An error has occurred' otherwise.
ErrorHandlerThrowsHttpError ==
  ehResult # <<>> =>
    /\ ehResult[1].thrown.t = "HttpError"
    /\ ehResult[1].thrown.statusCode = ExpectedStatus(ehError)
    /\ ehResult[1].thrown.message = ClassifiedMessage(ehError)

\* C12: handlerFn is called with an object that holds the event given to
\* the handler, the metrics instance and the stage.
HandlerArgsHaveEventMetricsStage ==
  handlerArgs # <<>> =>
    /\ {"event", "metrics", "stage"} \subseteq DOMAIN handlerArgs[1]
    /\ handlerArgs[1].event = event[1]

\* the '<path>: <issue message>' entries of the issues from the i-th on,
\* each but the last followed by '; '
RECURSIVE EntriesFrom(_, _)
EntriesFrom(issues, i) ==
  IF i > Len(issues) THEN <<>>
  ELSE LET issue == issues[i]
           path == IF issue.path = <<>> THEN RootText
                   ELSE Join([j \in 1..Len(issue.path) |-> SegmentText(issue.path[j])], <<".">>)
       IN path \o <<":", " ">> \o issue.message
            \o (IF i < Len(issues) THEN <<";", " ">> ELSE <<>>)
            \o EntriesFrom(issues, i + 1)

\* C13: validateSchema returns the parsed data when the schema accepts the
\* data; otherwise it throws a ValidationError named 'ValidationError' whose
\* message is 'Validation failed: ' and one '<path>: <message>' entry per
\* issue, joined by '; ', the path joined by '.' and 'root' when empty.
ValidateSchemaReturnsOrThrows ==
  vsResult # <<>> =>
    LET parsed == vsSchema[vsData]
    IN IF parsed.success
       THEN vsResult[1] = [threw |-> FALSE, value |-> parsed.data]
       ELSE /\ vsResult[1].threw
            /\ vsResult[1].value.t = "Error"
            /\ vsResult[1].value.name = ValidationErrorName
            /\ vsResult[1].value.message =
                 ValidationFailedPrefix \o EntriesFrom(parsed.error.issues, 1)

ValidateSchemaReturnsOrThrowsWitness ==
  /\ vsResult # <<>>
  /\ vsData = BadData
  /\ vsSchema[BadData].error.issues =
       <<[path |-> <<>>, message |-> OnlyLettersMessage],
         [path |-> <<JStr(ItemsKey), JNum(12), JStr(FirstNameKey)>>,
          message |-> ExpectedStringMessage]>>
  /\ vsResult[1].threw
  /\ Len(vsResult[1].value.message) =
       Len(ValidationFailedPrefix) + 4 + 2 + Len(OnlyLettersMessage) + 2
         + 18 + 2 + Len(ExpectedStringMessage)

EnumerableKeys(item) == {k \in DOMAIN item : item[k].enumerable}

\* the keys asked to be stripped: K and the strings of extraKeysToStrip
StrippedKeys(keysToStrip, extraKeysToStrip) ==
  (IF keysToStrip = <<>>
   THEN {"pk", "sk", "PK", "SK", "TTL", "ttl",
         "gsi1pk", "gsi1sk", "gsi2pk", "gsi2sk", "gsi3pk", "gsi3sk"}
   ELSE {keysToStrip[1][i].v : i \in 1..Len(keysToStrip[1])})
    \cup {extraKeysToStrip[i].v : i \in {j \in 1..Len(extraKeysToStrip) : extraKeysToStrip[j].t = "string"}}

\* C14: stripInternalKeys returns an object whose own keys are the item's
\* own enumerable keys minus K and the extra keys, K being keysToStrip when
\* given and the twelve defaults otherwise; every remaining key keeps the
\* item's value; with keysToStrip given, the defaults not listed are retained.
StripRemovesExactlyTheKeys ==
  skResult # <<>> =>
    /\ DOMAIN skResult[1] =
         EnumerableKeys(skItem) \ StrippedKeys(skKeysToStrip, skExtraKeysToStrip)
    /\ \A k \in DOMAIN skResult[1] : skResult[1][k] = skItem[k].value
    /\ skKeysToStrip # <<>> =>
         \A k \in {"pk", "gsi3sk"} \cap EnumerableKeys(skItem) :
           k \notin StrippedKeys(skKeysToStrip, <<>>) /\ k \notin StrippedKeys(<<<<>>>>, skExtraKeysToStrip)
             => k \in DOMAIN skResult[1]

StripRemovesExactlyTheKeysWitness ==
  /\ skResult # <<>>
  /\ DOMAIN skItem = ItemKeys
  /\ skKeysToStrip = <<<<KeyString("name")>>>>
  /\ skExtraKeysToStrip = <<KeyString("customMeta"), KeyNumber("42")>>
  /\ DOMAIN skResult[1] = {"pk", "gsi3sk", "42"}

\* C15: stripInternalKeys never modifies its arguments: the item and the
\* key arrays are as they were before the call, and a value of the returned
\* object is the same reference as in the item (a shallow copy).
StripLeavesArgumentsAlone ==
  [][(skResult = <<>> /\ skResult' # <<>>) =>
       /\ skItem' = skItem
       /\ skKeysToStrip' = skKeysToStrip
       /\ skExtraKeysToStrip' = skExtraKeysToStrip
       /\ \A k \in DOMAIN skResult'[1] :
            skItem[k].value.t = "ref" => skResult'[1][k].addr = skItem[k].value.addr]_vars

StripLeavesArgumentsAloneWitness ==
  /\ skResult # <<>>
  /\ DOMAIN skItem = ItemKeys
  /\ skKeysToStrip = <<>>
  /\ skExtraKeysToStrip = <<>>
  /\ DOMAIN skResult[1] = {"name", "customMeta", "42"}
  /\ skResult[1]["customMeta"] = Reference(1)
  /\ skItem["pk"].value = JStr(OkText)

\* the call that has returned or thrown is a call of fn
Called(fn) == cfgResult # <<>> /\ cfgCall[1].fn = fn

\* the value of the variable the call names first: <<>> when it is not set
CalledValue == cfgEnv[cfgCall[1].variableNames[1]]

\* the call threw an Error whose message starts with
\* 'Invalid environment variable: <name>'
ThrewInvalidVariable(name) ==
  /\ cfgResult[1].threw
  /\ cfgResult[1].value.t = "Error"
  /\ StartsWith(cfgResult[1].value.message, InvalidEnvironmentVariable \o name)

EqualsIgnoringCase(val, lower, upper) ==
  /\ Len(val) = Len(lower)
  /\ \A i \in 1..Len(val) : val[i] = lower[i] \/ val[i] = upper[i]

\* C18: getBoolean returns true when the value equals 'true' and false when
\* it equals 'false', compared case-insensitively, and throws an Error whose
\* message starts with 'Invalid environment variable: <name>' for every
\* other value, a missing or empty variable included.
GetBooleanReturnsOrThrows ==
  Called("getBoolean") =>
    IF CalledValue # <<>> /\ EqualsIgnoringCase(CalledValue[1], TrueText, <<"T", "R", "U", "E">>)
    THEN cfgResult[1] = [threw |-> FALSE, value |-> JBool(TRUE)]
    ELSE IF CalledValue # <<>>
            /\ EqualsIgnoringCase(CalledValue[1], FalseText, <<"F", "A", "L", "S", "E">>)
    THEN cfgResult[1] = [threw |-> FALSE, value |-> JBool(FALSE)]
    ELSE ThrewInvalidVariable(cfgCall[1].variableNames[1])

GetBooleanReturnsOrThrowsWitness ==
  /\ Called("getBoolean")
  /\ CalledValue = <<<<"t", "R", "u", "E">>>>
  /\ cfgResult[1] = [threw |-> FALSE, value |-> JBool(TRUE)]

\* numeric strings and the numbers they denote
KnownNumbers ==
  {<<<<"4", "2">>, Finite(FALSE, <<4, 2>>, 0)>>,
   <<<<"0">>, Finite(FALSE, <<>>, 0)>>,
   <<<<"-", "1", "2", "3">>, Finite(TRUE, <<1, 2, 3>>, 0)>>,
   <<<<"3", ".", "1", "4">>, Finite(FALSE, <<3, 1, 4>>, 0 - 2)>>,
   <<<<"1", "2", "3", "4", "5", "6", "7", "8", "9", "0">>, Finite(FALSE, <<1, 2, 3, 4, 5, 6, 7, 8, 9>>, 1)>>,
   <<<<"0", "0", "7">>, Finite(FALSE, <<7>>, 0)>>,
   <<<<" ", "4", "2", " ">>, Finite(FALSE, <<4, 2>>, 0)>>,
   <<<<"1", "e", "3">>, Finite(FALSE, <<1>>, 3)>>,
   <<<<"0", "x", "1", "F">>, Finite(FALSE, <<3, 1>>, 0)>>,
   <<<<"0", "b", "1", "0", "1">>, Finite(FALSE, <<5>>, 0)>>,
   <<<<"I", "n", "f", "i", "n", "i", "t", "y">>, Infinity(FALSE)>>,
   <<<<"-", "I", "n", "f", "i", "n", "i", "t", "y">>, Infinity(TRUE)>>}

KnownNonNumeric ==
  {<<"n", "o", "t", "_", "a", "_", "n", "u", "m", "b", "e", "r">>, <<"1", "2", "p", "x">>, <<"1", "_", "0", "0", "0">>, <<"1", "e">>, <<"-", "-", "1">>}

OnlyWhitespace(val) == \A i \in 1..Len(val) : val[i] \in {" ", "\t", "\n"}

\* C19: getNumber throws an Error whose message starts with
\* 'Invalid environment variable: <name>' when the variable is missing,
\* empty, longer than 10 characters, only whitespace or not a valid numeric
\* string, and otherwise returns the number that the string denotes.
GetNumberReturnsOrThrows ==
  Called("getNumber") =>
    /\ LET Holds(denoted) ==
             IF \/ Len(CalledValue[1]) > 10
                \/ OnlyWhitespace(CalledValue[1])
                \/ denoted = NaN
             THEN ThrewInvalidVariable(cfgCall[1].variableNames[1])
             ELSE cfgResult[1] = [threw |-> FALSE, value |-> denoted]
       IN IF CalledValue = <<>> \/ CalledValue[1] = <<>>
          THEN ThrewInvalidVariable(cfgCall[1].variableNames[1])
          ELSE Holds(Number(CalledValue[1]))
    /\ \A known \in KnownNumbers :
         CalledValue = <<known[1]>> => cfgResult[1] = [threw |-> FALSE, value |-> known[2]]
    /\ \A text \in KnownNonNumeric : CalledValue = <<text>> => cfgResult[1].threw

GetNumberReturnsOrThrowsWitness ==
  /\ Called("getNumber")
  /\ CalledValue = <<<<"1", "e", "1">>>>
  /\ cfgResult[1] = [threw |-> FALSE, value |-> Finite(FALSE, <<1>>, 1)]

\* the getter whose result get returns for the name
MatchingGetter(boolean, number, string) ==
  IF ~boolean.threw THEN boolean ELSE IF ~number.threw THEN number ELSE string

\* C20: for each name get returns getBoolean(name) when that succeeds,
\* otherwise getNumber(name) when that succeeds, otherwise getString(name);
\* a numeric string longer than 10 characters is returned as a string, and
\* every element equals what the individual getter of its type returns.
GetTriesBooleanNumberString ==
  (Called("get") /\ ~cfgResult[1].threw) =>
    /\ cfgResult[1].value.t = "array"
    /\ Len(cfgResult[1].value.v) = Len(cfgCall[1].variableNames)
    /\ \A i \in 1..Len(cfgCall[1].variableNames) :
         LET Holds(value, element, boolean, number, string) ==
               /\ element = MatchingGetter(boolean, number, string).value
               /\ element.t = "boolean" => element = boolean.value
               /\ element.t = "number" => element = number.value
               /\ element.t = "string" => element = string.value
               /\ (Len(value) > 10 /\ number.threw) => element = JStr(value)
         IN Holds(cfgEnv[cfgCall[1].variableNames[i]][1],
                  cfgResult[1].value.v[i],
                  getBoolean(cfgEnv, cfgCall[1].variableNames[i]),
                  getNumber(cfgEnv, cfgCall[1].variableNames[i]),
                  getString(cfgEnv, cfgCall[1].variableNames[i]))

GetTriesBooleanNumberStringWitness ==
  /\ Called("get")
  /\ cfgCall[1].variableNames = <<TestVar, TestVar2>>
  /\ cfgEnv[TestVar] = <<<<"F", "A", "L", "S", "E">>>>
  /\ cfgEnv[TestVar2] = <<<<"1", "2", "3", "4", "5", "6", "7", "8", "9", "0", "1">>>>
  /\ cfgResult[1] =
       [threw |-> FALSE,
        value |-> JArr(<<JBool(FALSE),
                         JStr(<<"1", "2", "3", "4", "5", "6", "7", "8", "9", "0", "1">>)>>)]

\* C21: getStrings, getBooleans, getNumbers and get return an array with one
\* entry per given name, in argument order, each what the single getter
\* returns for that name ([] for no names); when a name is invalid they
\* return nothing and throw the Error of the first invalid name in argument
\* order, whose message names that variable.
ArrayGettersMapTheSingleGetter ==
  (cfgResult # <<>> /\ cfgCall[1].fn \in {"get", "getStrings", "getBooleans", "getNumbers"}) =>
    LET Holds(names, single) ==
          LET invalid == {i \in 1..Len(names) : single[names[i]].threw}
              first == CHOOSE i \in invalid : \A j \in invalid : i <= j
              Names(name) ==
                /\ cfgResult[1].value.t = "Error"
                /\ StartsWith(cfgResult[1].value.message,
                              InvalidEnvironmentVariable \o name \o <<":", " ">>)
          IN /\ names = <<>> => cfgResult[1] = [threw |-> FALSE, value |-> JArr(<<>>)]
             /\ IF invalid = {}
                THEN cfgResult[1] =
                       [threw |-> FALSE,
                        value |-> JArr([i \in 1..Len(names) |-> single[names[i]].value])]
                ELSE /\ cfgResult[1] = single[names[first]]
                     /\ cfgResult[1].threw
                     /\ Names(names[first])
                     /\ \A i \in invalid : names[i] # names[first] => ~Names(names[i])
    IN Holds(cfgCall[1].variableNames,
             [n \in DOMAIN cfgEnv |->
                CASE cfgCall[1].fn = "getStrings" -> getString(cfgEnv, n)
                  [] cfgCall[1].fn = "getBooleans" -> getBoolean(cfgEnv, n)
                  [] cfgCall[1].fn = "getNumbers" -> getNumber(cfgEnv, n)
                  [] cfgCall[1].fn = "get" ->
                       MatchingGetter(getBoolean(cfgEnv, n), getNumber(cfgEnv, n),
                                      getString(cfgEnv, n))])

ArrayGettersMapTheSingleGetterWitness ==
  /\ Called("getNumbers")
  /\ cfgCall[1].variableNames = <<TestVar2, TestVar>>
  /\ cfgEnv[TestVar] = <<<<"1", "e">>>>
  /\ cfgEnv[TestVar2] = <<TrueText>>
  /\ ThrewInvalidVariable(TestVar2)

\* C22: a variable set to fromBoolean(b), fromNumber(n) or fromString(s), for
\* a value the converter accepts, is read back by getBoolean, getNumber or
\* getString as b, n or s (-0 is read back as 0, which is equal to it).
ConvertersRoundTrip ==
  (cvResult # <<>> /\ cfgResult # <<>>) =>
     cfgResult[1] =
       [threw |-> FALSE,
        value |-> IF cvCall[1].value.t = "number"
                  THEN Finite(cvCall[1].value.neg /\ cvCall[1].value.digits # <<>>,
                              cvCall[1].value.digits, cvCall[1].value.exp)
                  ELSE cvCall[1].value]

\* the call of fn has returned
DnsCalled(fn) == dnsResult # <<>> /\ dnsCall[1].fn = fn

IsWhitespace(c) == c \in {" ", "\t", "\n", "\r"}

IsUppercase(c) == ToLowerCaseChar(c) # c

\* inputs and results of the sanitiser's tests
KnownSanitised ==
  {<<<<" ", " ", "M", "y", " ", "D", "o", "m", "a", "i", "n", " ", "N", "a", "m", "e", " ", " ">>, <<"m", "y", "d", "o", "m", "a", "i", "n", "n", "a", "m", "e">>>>,
   <<<<"A", "P", "I", "-", "G", "A", "T", "E", "W", "A", "Y", ".", "T", "E", "S", "T", ".", "L", "O", "C", "A", "L">>, <<"a", "p", "i", "-", "g", "a", "t", "e", "w", "a", "y", ".", "t", "e", "s", "t", ".", "l", "o", "c", "a", "l">>>>,
   <<<<"s", "e", "r", "v", "i", "c", "e", "_", "1", "2", "3">>, <<"s", "e", "r", "v", "i", "c", "e", "_", "1", "2", "3">>>>,
   <<<<"M", "y", " ", "A", "p", "p", ".", "e", "x", "a", "m", "p", "l", "e", ".", "c", "o", "m">>, <<"m", "y", "a", "p", "p", ".", "e", "x", "a", "m", "p", "l", "e", ".", "c", "o", "m">>>>,
   <<<<"F", "e", "a", "t", "u", "r", "e", " ", "B", "r", "a", "n", "c", "h">>, <<"f", "e", "a", "t", "u", "r", "e", "b", "r", "a", "n", "c", "h">>>>,
   <<<<"a", "p", "i", "\r", "\n", "g", "a", "t", "e", "w", "a", "y", "\t", "s", "e", "r", "v", "i", "c", "e">>,
     <<"a", "p", "i", "g", "a", "t", "e", "w", "a", "y", "s", "e", "r", "v", "i", "c", "e">>>>,
   <<<<" ", "\t", " ", "\n", " ", "\r", " ">>, <<>>>>}

\* C23: sanitiseDnsString(s) is s without its whitespace characters
\* (leading, trailing and internal; spaces, tabs, carriage returns and
\* newlines) and with its letters in lower case, every other character
\* kept, in the original order; '' and whitespace-only strings give ''.
SanitiseRemovesWhitespaceAndLowercases ==
  DnsCalled("sanitiseDnsString") =>
    LET Holds(s, result) ==
          LET kept == {i \in 1..Len(s) : ~IsWhitespace(s[i])}
          IN /\ Len(result) = Cardinality(kept)
             /\ \A i \in kept :
                  result[Cardinality({j \in kept : j <= i})] = ToLowerCaseChar(s[i])
             /\ \A i \in 1..Len(result) : ~IsWhitespace(result[i]) /\ ~IsUppercase(result[i])
             /\ (\A i \in 1..Len(s) : IsWhitespace(s[i])) => result = <<>>
             /\ \A known \in KnownSanitised : s = known[1] => result = known[2]
    IN Holds(dnsCall[1].args[1], dnsResult[1])

SanitiseRemovesWhitespaceAndLowercasesWitness ==
  /\ DnsCalled("sanitiseDnsString")
  /\ dnsCall[1].args[1] = <<"a", "p", "i", "\r", "\n", "g", "a", "t", "e", "w", "a", "y", "\t", "s", "e", "r", "v", "i", "c", "e">>
  /\ dnsResult[1] = <<"a", "p", "i", "g", "a", "t", "e", "w", "a", "y", "s", "e", "r", "v", "i", "c", "e">>

\* C24: generateApiSubDomain returns 'api.' + d when stageName is 'prod' and
\* 'api-' + s + '.' + d for every other stage, s and d being the sanitised
\* stage and domain names; the output has no uppercase letter and no
\* whitespace.
ApiSubDomainOfStage ==
  DnsCalled("generateApiSubDomain") =>
    LET Holds(stageName, s, d, result) ==
          /\ result = IF stageName = StageProd
                      THEN <<"a", "p", "i", ".">> \o d
                      ELSE <<"a", "p", "i", "-">> \o s \o <<".">> \o d
          /\ \A i \in 1..Len(result) : ~IsWhitespace(result[i]) /\ ~IsUppercase(result[i])
    IN Holds(dnsCall[1].args[1], sanitiseDnsString(dnsCall[1].args[1]),
             sanitiseDnsString(dnsCall[1].args[2]), dnsResult[1])

ApiSubDomainOfStageWitness ==
  /\ DnsCalled("generateApiSubDomain")
  /\ dnsCall[1].args = <<<<"F", "e", "a", "t", "u", "r", "e", " ", "B", "r", "a", "n", "c", "h">>, <<" ", "E", "x", "a", "m", "p", "l", "e", ".", "C", "O", "M", " ">>>>
  /\ dnsResult[1] = <<"a", "p", "i", "-", "f", "e", "a", "t", "u", "r", "e", "b", "r", "a", "n", "c", "h", ".", "e", "x", "a", "m", "p", "l", "e", ".", "c", "o", "m">>

\* C25: generateWebSubDomain and generateAuthDomain return stage 'www' when
\* stageName is 'prod', with subDomain d and 'auth.' + d, and for every
\* other stage return stage s with subDomain s + '.' + d and
\* 'auth-' + s + '.' + d, s and d being the sanitised stage and domain names.
WebAndAuthDomainOfStage ==
  (DnsCalled("generateWebSubDomain") \/ DnsCalled("generateAuthDomain")) =>
    LET Holds(fn, stageName, s, d, result) ==
          /\ DOMAIN result = {"stage", "subDomain"}
          /\ result.stage = IF stageName = StageProd THEN <<"w", "w", "w">> ELSE s
          /\ fn = "generateWebSubDomain" =>
               result.subDomain = IF stageName = StageProd THEN d ELSE s \o <<".">> \o d
          /\ fn = "generateAuthDomain" =>
               result.subDomain = IF stageName = StageProd
                                  THEN <<"a", "u", "t", "h", ".">> \o d
                                  ELSE <<"a", "u", "t", "h", "-">> \o s \o <<".">> \o d
    IN Holds(dnsCall[1].fn, dnsCall[1].args[1], sanitiseDnsString(dnsCall[1].args[1]),
             sanitiseDnsString(dnsCall[1].args[2]), dnsResult[1])

WebAndAuthDomainOfStageWitness ==
  /\ DnsCalled("generateWebSubDomain")
  /\ dnsCall[1].args = <<StageProd, <<"m", "y", "-", "s", "u", "b", "-", "d", "o", "m", "a", "i", "n", ".", "e", "x", "a", "m", "p", "l", "e", ".", "c", "o", "m">>>>
  /\ dnsResult[1] = [stage |-> <<"w", "w", "w">>,
                     subDomain |-> <<"m", "y", "-", "s", "u", "b", "-", "d", "o", "m", "a", "i", "n", ".", "e", "x", "a", "m", "p", "l", "e", ".", "c", "o", "m">>]

\* the result of the called generator has the production format
ProductionFormat(fn, d, result) ==
  CASE fn = "generateApiSubDomain" -> result = <<"a", "p", "i", ".">> \o d
    [] fn = "generateWebSubDomain" -> result.subDomain = d
    [] fn = "generateAuthDomain" -> result.subDomain = <<"a", "u", "t", "h", ".">> \o d

\* the result of the called generator has the format of the stage 'prod'
\* that is not production
ProdAsStageFormat(fn, d, result) ==
  CASE fn = "generateApiSubDomain" ->
         result = <<"a", "p", "i", "-">> \o StageProd \o <<".">> \o d
    [] fn = "generateWebSubDomain" ->
         result = [stage |-> StageProd, subDomain |-> StageProd \o <<".">> \o d]
    [] fn = "generateAuthDomain" ->
         result = [stage |-> StageProd,
                   subDomain |-> <<"a", "u", "t", "h", "-">> \o StageProd \o <<".">> \o d]

ErrorHandlerLogsTwiceThenThrows ==
  ehResult # <<>> =>
    /\ Len(ehResult[1].logs) = 2
    /\ ehResult[1].logs[1] = LogMessage(PrivateErrorPrefix \o TemplateString(ehError))
    /\ ehResult[1].thrown.t = "HttpError"
    /\ ehResult[1].logs[2] =
         LogWithContext(ehResult[1].thrown.message, ehResult[1].thrown.message,
                        ehResult[1].thrown.statusCode)

\* the response a caller holds, with the headers object it refers to
ResponseOf(i) ==
  [invocations[i].response[1] EXCEPT
     !.headers = headerObjects[invocations[i].response[1].headers]]

\* the response of the only invocation of the handler, for the same outcome
\* of handlerFn
SoleResponse(settled) ==
  LET Finish(r) == IF r.returned THEN r.response ELSE httpErrorHandler(r.thrown[1])
  IN Finish(IF settled.kind = "resolved" THEN TryBlock(settled.value)
            ELSE CatchBlock(settled.value))

\* C27: invocations are independent: whatever other invocations started,
\* settled or had their response written to before or meanwhile, an
\* invocation whose own response the caller has not written to has the
\* response, error path and headers the only invocation of the handler has
\* for the same outcome of handlerFn
InvocationsAreIndependent ==
  \A i \in DOMAIN invocations :
    (invocations[i].pc = "done" /\ ~invocations[i].written) =>
      /\ (invocations[i].response = <<>>) = (SoleResponse(invocations[i].outcome[1]) = <<>>)
      /\ invocations[i].response # <<>> =>
            <<ResponseOf(i)>> = SoleResponse(invocations[i].outcome[1])

\* an invocation returned the success response with the default headers
\* after the caller had written to the headers of an earlier success response
InvocationsAreIndependentWitness ==
  /\ invocations # <<>>
  /\ \E i, j \in DOMAIN invocations :
       /\ invocations[i].pc = "done" /\ invocations[i].written
       /\ invocations[i].outcome[1].kind = "resolved"
       /\ invocations[j].pc = "done" /\ ~invocations[j].written
       /\ invocations[j].outcome[1].kind = "resolved"
       /\ invocations[i].response[1].headers < invocations[j].response[1].headers
       /\ ResponseOf(i).headers["Content-Type"] = JStr("text/html")
       /\ ResponseOf(j).headers = getHeaders(NoOverrides)

\* C28: the classification depends only on the value being an Error
\* instance and on its name: an Error with one of the six recognised names,
\* whatever class built it, gets the status of the name and keeps its
\* message; an instance of any class with another name (an exported class
\* whose name was changed included) and an object that is not an Error but
\* has a recognised name get 500 and the generic message.
ClassifiedByInstanceAndName ==
  (ehResult # <<>> /\ ehError.t \in {"Error", "plainObject"}) =>
    /\ ehResult[1].thrown.t = "HttpError"
    /\ IF InstanceOfError(ehError) /\ ehError.name \in KnownNames
       THEN /\ ehResult[1].thrown.statusCode = KindStatus(ehError.name)
            /\ ehResult[1].thrown.message = ehError.message
       ELSE /\ ehResult[1].thrown.statusCode = 500
            /\ ehResult[1].thrown.message = FallbackMessage

\* an instance built by ValidationError whose name was changed to a name
\* that is not recognised ends as 500 with the generic message
ClassifiedByInstanceAndNameWitness ==
  /\ ehResult # <<>>
  /\ InstanceOfError(ehError)
  /\ "class" \in DOMAIN ehError
  /\ ehError.class = ValidationErrorName
  /\ ehError.name \notin KnownNames
  /\ ehResult[1].thrown.t = "HttpError"
  /\ ehResult[1].thrown.statusCode = 500
  /\ ehResult[1].thrown.message = FallbackMessage

====
